---------------------------- MODULE Spec2Model ----------------------------
(***************************************************************************)
(* A model of the cryptonita toolkit: the byte-string algebra (mixins.py), *)
(* the weighted candidate set (fuzzy_set.py) and the attacks built on them *)
(* (attacks/__init__.py, attacks/block_ciphers.py, attacks/prng.py).       *)
(*                                                                         *)
(* Every component has its own variables, initial condition, actions and   *)
(* specification (SpecBytes, SpecFuzzy, ...).  A specification starts the  *)
(* other components idle and never moves them.                             *)
(*                                                                         *)
(* Bytes are the integers 0..255.  Weights, scores and thresholds are      *)
(* exact rationals <<numerator, denominator>> in lowest terms; the inputs  *)
(* are dyadic (multiples of 1/4), for which the products the code forms    *)
(* in binary floating point are exact.                                     *)
(***************************************************************************)
EXTENDS Integers, Sequences, FiniteSets, TLC

\* ------------------------------------------------------------------ bounds
\* longest operand of the byte-string workbench
MaxLen == 3
\* most items of a candidate set given as an input
MaxItems == 2
\* most operations applied to the candidate set under test
MaxOps == 2

\* ------------------------------------------------------- program constants
\* range(256): the values of a byte
ByteRange == 256
\* unpad refuses a PKCS#7 pad longer than this
UnpadMaxPad == 64
\* the longest base InfiniteStream hands to itertools.cycle
InfiniteStreamLimit == 2048

VARIABLES
    \* --- byte-string workbench (mixins.py)
    bs_self,      \* the left operand / receiver
    bs_other,     \* the right operand
    bs_n,         \* block size given to pad
    bs_scheme,    \* padding scheme given to pad and unpad
    bs_res,       \* what the last operation returned (or raised)
    bs_hist,      \* the operations applied so far, in order
    bs_in,        \* the operands as they were constructed
    \* --- a weighted candidate set under a sequence of operations (fuzzy_set.py)
    fz,           \* the FuzzySet object: its items and its min_membership
    fz_arg,       \* what the last operation was given: a FuzzySet, the pairs read
                  \* by the constructor, the item assigned, a count, the set
                  \* as it was before normalize
    fz_res,       \* what the last operation returned (or raised)
    fz_op,        \* the last operation
    fz_ops,       \* how many operations were applied
    \* --- one call of brute_force (attacks/__init__.py)
    bf_in,        \* its arguments
    bf_res,       \* what it returned (or raised)
    bf_pc,        \* "new" before the call, "done" after
    \* --- one call of freq_attack (attacks/__init__.py)
    fa_in,        \* its arguments
    fa_res,       \* what it returned (or raised)
    fa_pc,        \* "new" before the call, "done" after
    \* --- one call of join_fuzzy_sets (fuzzy_set.py)
    jn_in,        \* its arguments
    jn_res,       \* what it returned (or raised)
    jn_pc,        \* "new" before the call, "done" after
    \* --- decrypt_cbc_padding_attack against a padding oracle (block_ciphers.py)
    cbc_in,       \* the victim's key, IV and plaintext; what the attacker is given
    cbc_pc,       \* where the attack is
    cbc_cblocks,  \* cblocks: the ciphertext blocks still to attack
    cbc_p,        \* p: the plaintext blocks recovered, last block first
    cbc_prev,     \* prev_cblock
    cbc_heap,     \* the byte strings the attack can reach, by object
    cbc_x,        \* x: the bytes recovered of the block under attack
    cbc_i,        \* i: the position under attack
    cbc_n,        \* n: the guess
    cbc_ret,      \* what the attack returned
    \* --- decrypt_ecb_tail against an encryption oracle (block_ciphers.py)
    ecb_in,       \* the victim's key, prefix and secret; what the attacker is given
    ecb_pc,       \* where the attack is
    ecb_test_block,          \* test_block
    ecb_align_target_block,  \* align_target_block
    ecb_distance,            \* distance
    ecb_decrypted_bytes,     \* decrypted_bytes
    ecb_i,        \* i: the rounds begun
    ecb_eof,      \* eof
    ecb_b,        \* b: the guess
    ecb_calls,    \* how many times the oracle was called
    ecb_ret,      \* what the attack returned
    \* --- an MT19937 generator and its clone (attacks/prng.py)
    mt_in,        \* the seed and how many outputs the attacker sees
    mt_pc,        \* where the run is
    mt_who,       \* the generator in use: the original g or the clone c
    mt_g_MT,      \* MT of the original generator
    mt_g_index,   \* index of the original generator
    mt_i,         \* i of the loop under way
    mt_out,       \* the outputs shown to the attacker
    mt_g_next,    \* the outputs of the original generator after them
    mt_c_MT,      \* MT of the clone
    mt_c_index,   \* index of the clone
    mt_c_next,    \* the outputs of the clone
    mt_res,       \* what clone_mt19937 raised, if it did
    \* --- kasiski_test on a byte string (metrics/kasiski.py)
    ks_s,         \* the byte string
    ks_pc,        \* where the test is
    ks_l,         \* l: the repeated n-grams with their positions
    ks_res,       \* res: a histogram of deltas for each n so far
    \* --- a DistributionSummary (stats/distribution_summary.py)
    ds_self,      \* the summary: epsilon, max_buffer_len, buffered, n, buffer, summary
    ds_seen,      \* the observations it was given, in increasing order
    ds_pc,        \* "ready" for a call, "answered" after a query, "failed" after an assert
    ds_call,      \* the last call
    ds_arg,       \* its argument when it is a query: a rank r as r/1, a quantile a/b
    ds_res,       \* what the last call returned (or raised)
    \* --- an IntSpace and its iteration (space.py)
    sp_in,        \* the arguments a, b, step and start
    sp_self,      \* the IntSpace built: lo, hi, step, start (or what __init__ raised)
    sp_pc,        \* where the generator is
    sp_cnt,       \* cnt
    sp_rest,      \* the range of the last loop still to yield
    sp_out,       \* the numbers yielded so far
    \* --- a tempering step and its inverse (attacks/prng.py)
    tm_in,        \* the word y, the mask m, the shift b and the direction
    tm_pc,        \* "new", "while" in the loop of the inverse, "done"
    tm_v,         \* the tempered word
    tm_g,         \* g of the inverse
    tm_i,         \* i of the inverse
    \* --- the positions of the repeated n-grams of a byte string (stats/kasiski.py)
    kp_s,         \* the byte string
    kp_n,         \* n: the length of the n-grams of kp_res
    kp_pc,        \* where the run is
    kp_pos,       \* the pos_sorted the last merge was given
    kp_res        \* pos_sorted: what the last call returned (or raised)

bsVars == <<bs_self, bs_other, bs_n, bs_scheme, bs_res, bs_hist, bs_in>>
fzVars == <<fz, fz_arg, fz_res, fz_op, fz_ops>>
bfVars == <<bf_in, bf_res, bf_pc>>
faVars == <<fa_in, fa_res, fa_pc>>
jnVars == <<jn_in, jn_res, jn_pc>>
cbcVars == <<cbc_in, cbc_pc, cbc_cblocks, cbc_p, cbc_prev, cbc_heap, cbc_x, cbc_i, cbc_n, cbc_ret>>
ecbVars == <<ecb_in, ecb_pc, ecb_test_block, ecb_align_target_block, ecb_distance, ecb_decrypted_bytes, ecb_i, ecb_eof, ecb_b, ecb_calls, ecb_ret>>
mtVars == <<mt_in, mt_pc, mt_who, mt_g_MT, mt_g_index, mt_i, mt_out, mt_g_next, mt_c_MT, mt_c_index, mt_c_next, mt_res>>
ksVars == <<ks_s, ks_pc, ks_l, ks_res>>
dsVars == <<ds_self, ds_seen, ds_pc, ds_call, ds_arg, ds_res>>
spVars == <<sp_in, sp_self, sp_pc, sp_cnt, sp_rest, sp_out>>
tmVars == <<tm_in, tm_pc, tm_v, tm_g, tm_i>>
kpVars == <<kp_s, kp_n, kp_pc, kp_pos, kp_res>>

vars == <<bsVars, fzVars, bfVars, faVars, jnVars, cbcVars, ecbVars, mtVars, ksVars, dsVars, spVars, tmVars, kpVars>>

\* what each component leaves alone
bsOthers == <<fzVars, bfVars, faVars, jnVars, cbcVars, ecbVars, mtVars, ksVars, dsVars, spVars, tmVars, kpVars>>
fzOthers == <<bsVars, bfVars, faVars, jnVars, cbcVars, ecbVars, mtVars, ksVars, dsVars, spVars, tmVars, kpVars>>
bfOthers == <<bsVars, fzVars, faVars, jnVars, cbcVars, ecbVars, mtVars, ksVars, dsVars, spVars, tmVars, kpVars>>
faOthers == <<bsVars, fzVars, bfVars, jnVars, cbcVars, ecbVars, mtVars, ksVars, dsVars, spVars, tmVars, kpVars>>
jnOthers == <<bsVars, fzVars, bfVars, faVars, cbcVars, ecbVars, mtVars, ksVars, dsVars, spVars, tmVars, kpVars>>
cbcOthers == <<bsVars, fzVars, bfVars, faVars, jnVars, ecbVars, mtVars, ksVars, dsVars, spVars, tmVars, kpVars>>
ecbOthers == <<bsVars, fzVars, bfVars, faVars, jnVars, cbcVars, mtVars, ksVars, dsVars, spVars, tmVars, kpVars>>
mtOthers == <<bsVars, fzVars, bfVars, faVars, jnVars, cbcVars, ecbVars, ksVars, dsVars, spVars, tmVars, kpVars>>
ksOthers == <<bsVars, fzVars, bfVars, faVars, jnVars, cbcVars, ecbVars, mtVars, dsVars, spVars, tmVars, kpVars>>
dsOthers == <<bsVars, fzVars, bfVars, faVars, jnVars, cbcVars, ecbVars, mtVars, ksVars, spVars, tmVars, kpVars>>
spOthers == <<bsVars, fzVars, bfVars, faVars, jnVars, cbcVars, ecbVars, mtVars, ksVars, dsVars, tmVars, kpVars>>
tmOthers == <<bsVars, fzVars, bfVars, faVars, jnVars, cbcVars, ecbVars, mtVars, ksVars, dsVars, spVars, kpVars>>
kpOthers == <<bsVars, fzVars, bfVars, faVars, jnVars, cbcVars, ecbVars, mtVars, ksVars, dsVars, spVars, tmVars>>

\* ----------------------------------------------------------------- helpers
Min(a, b) == IF a <= b THEN a ELSE b
Max(a, b) == IF a >= b THEN a ELSE b

\* the value an operation returns, or the exception it raises
Ok(v) == [ok |-> TRUE, val |-> v, err |-> ""]
Raise(e) == [ok |-> FALSE, val |-> <<>>, err |-> e]
None == Ok(<<>>)

\* s[a:b] of Python for 0 <= a, over a 1-based TLA+ sequence: the elements
\* at 0-based positions a .. b-1, clamped to the sequence
Slice(s, a, b) ==
    LET lo == Min(a, Len(s))
        hi == Min(b, Len(s))
    IN IF hi <= lo THEN <<>> ELSE SubSeq(s, lo + 1, hi)

\* s[-n:] of Python for n >= 0 (s[-0:] is the whole of s)
LastN(s, n) == IF n = 0 \/ n >= Len(s) THEN s ELSE SubSeq(s, Len(s) - n + 1, Len(s))

\* s[:-n] of Python for n >= 0 (s[:-0] is empty)
DropLastN(s, n) == IF n = 0 \/ n >= Len(s) THEN <<>> ELSE SubSeq(s, 1, Len(s) - n)

\* [v] * n of Python
Repeat(v, n) == [i \in 1..Max(n, 0) |-> v]

\* all sequences over S of length lo..hi
SeqsOf(S, lo, hi) == UNION {[1..n -> S] : n \in lo..hi}

\* a ^ b on Python ints (non-negative)
RECURSIVE xor(_, _)
xor(a, b) ==
    IF a = 0 THEN b
    ELSE IF b = 0 THEN a
    ELSE (((a % 2) + (b % 2)) % 2) + 2 * xor(a \div 2, b \div 2)

\* ------------------------------------------------- mixins.py: SequenceMixin
\* helpers.are_same_length_or_fail
are_same_length_or_fail(a, b) == Len(a) = Len(b)

\* zip(self, other) of two finite sequences, xor-ed pairwise
XorZip(a, b) == [i \in 1..Min(Len(a), Len(b)) |-> xor(a[i], b[i])]

\* a mutant of SequenceMixin_xor: the xor done in place, as __ixor__ does
SequenceMixin_xor_inplace(self, other) ==
    IF ~are_same_length_or_fail(self, other)
    THEN [self |-> self, other |-> other, ret |-> Raise("ValueError")]
    ELSE [self |-> XorZip(self, other), other |-> other,
          ret |-> Ok(XorZip(self, other))]

\* SequenceMixin.__xor__ with a finite other: the operands after the call and
\* what it returns
SequenceMixin_xor(self, other) ==
    IF ~are_same_length_or_fail(self, other)
    THEN [self |-> self, other |-> other, ret |-> Raise("ValueError")]
    ELSE [self |-> self, other |-> other, ret |-> Ok(XorZip(self, other))]

\* InfiniteStream.__iter__: the first count bytes of the stream.  A base of
\* at most InfiniteStreamLimit bytes goes through itertools.cycle, which yields
\* nothing for an empty base; a longer one through _iter_long_seq, which
\* starts base again each time it is exhausted
InfiniteStream_iter(base, count) ==
    IF Len(base) <= InfiniteStreamLimit
    THEN IF base = <<>> THEN <<>>
         ELSE [i \in 1..count |-> base[((i - 1) % Len(base)) + 1]]
    ELSE [i \in 1..count |-> base[((i - 1) % Len(base)) + 1]]

\* a mutant of SequenceMixin_xor_inf: base is not repeated
SequenceMixin_xor_once(self, base) == XorZip(self, base)

\* self ^ base.inf(): zip stops with self, the stream repeats base for ever
SequenceMixin_xor_inf(self, base) ==
    XorZip(self, InfiniteStream_iter(base, Len(self)))

\* a mutant of SequenceMixin_lshift: the bytes shifted out come back at the
\* right end, other is not taken
SequenceMixin_lshift_rotate(self, other) ==
    LET n == Len(other)
    IN IF n = 0 \/ n > Len(self) THEN self
       ELSE Slice(self, n, Len(self)) \o SubSeq(self, 1, n)

\* SequenceMixin.__lshift__: other[-len(self):] is the whole of other when
\* self is empty
SequenceMixin_lshift(self, other) ==
    LET n == Len(other)
    IN IF n = 0 THEN self
       ELSE IF n > Len(self) THEN LastN(other, Len(self))
       ELSE Slice(self, n, Len(self)) \o other

\* MutableSequenceMixin.__setitem__ with the slice [start:stop] (0-based,
\* already clamped by slice.indices, step 1): the new content, or the error
\* when val has not the length of the slice
MutableSequenceMixin_setslice(self, start, stop, val) ==
    IF Len(val) # stop - start THEN Raise("ValueError")
    ELSE Ok([i \in 1..Len(self) |->
                IF start < i /\ i <= stop THEN val[i - start] ELSE self[i]])

\* MutableSequenceMixin.__ilshift__: self afterwards and what the statement
\* gives, self itself or the error of the slice assignment
MutableSequenceMixin_ilshift(self, other) ==
    LET n == Len(other)
        len == Len(self)
    IN IF n = 0 THEN [self |-> self, ret |-> Ok(self)]
       ELSE IF n > len
       THEN LET r == MutableSequenceMixin_setslice(self, 0, len, LastN(other, len))
            IN [self |-> IF r.ok THEN r.val ELSE self, ret |-> r]
       ELSE LET r1 == MutableSequenceMixin_setslice(self, 0, len - n, Slice(self, n, len))
                r2 == MutableSequenceMixin_setslice(r1.val, len - n, len, other)
            IN IF ~r1.ok THEN [self |-> self, ret |-> r1]
               ELSE [self |-> IF r2.ok THEN r2.val ELSE r1.val, ret |-> r2]

\* a mutant of SequenceMixin_pad: a full block is never added
SequenceMixin_pad_nofull(self, n, scheme) ==
    IF scheme \notin {"pkcs#7", "zeros"} THEN Raise("ValueError")
    ELSE IF n <= 0 THEN Raise("AssertionError")
    ELSE LET npad == (n - (Len(self) % n)) % n
         IN Ok(self \o Repeat(IF scheme = "zeros" THEN 0 ELSE npad, npad))

\* SequenceMixin.pad
SequenceMixin_pad(self, n, scheme) ==
    IF scheme \notin {"pkcs#7", "zeros"} THEN Raise("ValueError")
    ELSE IF n <= 0 THEN Raise("AssertionError")
    ELSE LET npad == n - (Len(self) % n)
         IN IF scheme = "pkcs#7"
            THEN IF npad >= ByteRange THEN Raise("ValueError")
                 ELSE Ok(self \o Repeat(npad, npad))
            ELSE Ok(self \o Repeat(0, npad))

\* SequenceMixin.unpad
SequenceMixin_unpad(self, scheme) ==
    IF scheme = "pkcs#7"
    THEN IF Len(self) = 0 THEN Raise("IndexError")
         ELSE LET n == self[Len(self)]
              IN IF n > UnpadMaxPad \/ LastN(self, n) # Repeat(n, n)
                 THEN Raise("ValueError")
                 ELSE Ok(DropLastN(self, n))
    ELSE Raise("ValueError")

\* ------------------------------------------------------------- rationals
RECURSIVE Gcd(_, _)
Gcd(a, b) == IF b = 0 THEN a ELSE Gcd(b, a % b)

Abs(a) == IF a < 0 THEN 0 - a ELSE a

\* n/d in lowest terms, the sign in the numerator (d # 0)
Rat(n, d) ==
    LET g == Gcd(Abs(n), Abs(d))
        sgn == IF d < 0 THEN 0 - 1 ELSE 1
    IN <<(sgn * n) \div g, (sgn * d) \div g>>

Zero == <<0, 1>>
One == <<1, 1>>
RMul(a, b) == Rat(a[1] * b[1], a[2] * b[2])
RAdd(a, b) == Rat(a[1] * b[2] + b[1] * a[2], a[2] * b[2])
RInv(a) == Rat(a[2], a[1])
RLt(a, b) == a[1] * b[2] < b[1] * a[2]
RLe(a, b) == a[1] * b[2] <= b[1] * a[2]
RMin(a, b) == IF RLe(a, b) THEN a ELSE b
RMax(a, b) == IF RLe(b, a) THEN a ELSE b

\* a Python number whose type the code looks at: an int or a float
PyInt(n) == [isint |-> TRUE, v |-> <<n, 1>>]
PyFloat(r) == [isint |-> FALSE, v |-> r]

\* --------------------------------------------- dict (insertion-ordered)
\* a dict is the sequence of its <<key, value>> items in insertion order
DictKeys(d) == {d[i][1] : i \in DOMAIN d}
DictIndex(d, k) == CHOOSE i \in DOMAIN d : d[i][1] = k
\* dict.get(k, default)
DictGet(d, k, default) == IF k \in DictKeys(d) THEN d[DictIndex(d, k)][2] ELSE default
\* dict.__setitem__: a known key keeps its place, a new one goes last
DictSet(d, k, v) ==
    IF k \in DictKeys(d) THEN [i \in DOMAIN d |-> IF d[i][1] = k THEN <<k, v>> ELSE d[i]]
    ELSE Append(d, <<k, v>>)
\* del d[k]
DictDel(d, k) == SelectSeq(d, LAMBDA e : e[1] # k)
\* dict(pairs) and dict.update(pairs): the pairs set one after the other, so a
\* key stands where it was first set and holds the value it was last set to
DictUpdate(d, pairs) ==
    LET all == d \o pairs
        first == SelectSeq([i \in DOMAIN all |-> i],
                           LAMBDA i : \A j \in 1..(i - 1) : all[j][1] # all[i][1])
        last(k) == CHOOSE j \in DOMAIN all :
                      /\ all[j][1] = k
                      /\ \A h \in (j + 1)..Len(all) : all[h][1] # k
    IN [n \in DOMAIN first |-> <<all[first[n]][1], all[last(all[first[n]][1])][2]>>]

\* a mutant of SortedByWeight: items of equal weight in the order of their keys
RECURSIVE SortedByWeight_bykey(_)
SortedByWeight_bykey(items) ==
    IF items = <<>> THEN <<>>
    ELSE LET rest == SortedByWeight_bykey(Tail(items))
             e == Head(items)
             first(x) == RLt(e[2], x[2]) \/ (x[2] = e[2] /\ x[1] < e[1])
         IN SelectSeq(rest, first) \o <<e>> \o SelectSeq(rest, LAMBDA x : ~first(x))

\* sorted(items, key=itemgetter(1), reverse=True): by weight, heaviest first,
\* items of equal weight in their original order
RECURSIVE SortedByWeight(_)
SortedByWeight(items) ==
    IF items = <<>> THEN <<>>
    ELSE LET rest == SortedByWeight(Tail(items))
             e == Head(items)
             \* e came before the rest: it goes before the first item that is
             \* not heavier than it
             before == SelectSeq(rest, LAMBDA x : RLt(e[2], x[2]))
             after == SelectSeq(rest, LAMBDA x : ~RLt(e[2], x[2]))
         IN before \o <<e>> \o after

\* a mutant of nlargest: the first n items, whatever their weights
nlargest_first(n, items) ==
    IF n <= 0 THEN <<>> ELSE Slice(items, 0, n)

\* heapq.nlargest(n, items, key=itemgetter(1))
nlargest(n, items) ==
    IF n <= 0 THEN <<>> ELSE Slice(SortedByWeight(items), 0, n)

\* ------------------------------------------------ fuzzy_set.py: FuzzySet
\* a FuzzySet object: its dict items and its _min_membership
FS(items, min) == [items |-> items, min |-> min]

\* FuzzySet._check_probability: does it pass?
check_probability(prob) == RLe(Zero, prob) /\ RLe(prob, One)

\* FuzzySet.__getitem__
FuzzySet_getitem(self, elem) == DictGet(self.items, elem, Zero)

\* a mutant of FuzzySet_cut_off: the threshold form drops a weight equal to it
FuzzySet_cut_off_strict(self, n) ==
    IF n.isint
    THEN FS(nlargest(n.v[1], self.items), self.min)
    ELSE FS(SelectSeq(self.items, LAMBDA e : RLt(n.v, e[2])), self.min)

\* FuzzySet.cut_off: the object afterwards
FuzzySet_cut_off(self, n) ==
    IF n.isint
    THEN FS(nlargest(n.v[1], self.items), self.min)
    ELSE FS(SelectSeq(self.items, LAMBDA e : ~RLt(e[2], n.v)), self.min)

\* the min_membership setter
FuzzySet_set_min_membership(self, pr) ==
    IF ~check_probability(pr.v) THEN [self |-> self, ret |-> Raise("ValueError")]
    ELSE [self |-> FuzzySet_cut_off(FS(self.items, pr), pr), ret |-> None]

\* the (key, weight) pairs the constructor reads from its arguments
AsPairs(form, iterable, pr) ==
    CASE form = "dict" -> iterable
      [] form = "tuple" -> iterable
      [] form = "keys" -> [i \in DOMAIN iterable |-> <<iterable[i], pr>>]
      [] form = "zip" -> [i \in 1..Min(Len(iterable), Len(pr)) |-> <<iterable[i], pr[i]>>]

\* FuzzySet.__init__ over the pairs it reads
FuzzySet_init(pairs, min_membership) ==
    IF ~check_probability(min_membership.v) THEN Raise("ValueError")
    ELSE LET kept == SelectSeq(pairs, LAMBDA e : RLt(min_membership.v, e[2]))
             items == DictUpdate(<<>>, kept)
         IN IF \E i \in DOMAIN items : ~check_probability(items[i][2])
            THEN Raise("ValueError")
            ELSE Ok(FS(items, min_membership))

\* FuzzySet(): the empty set with the default min_membership 0.0
EmptyFuzzySet == FS(<<>>, PyFloat(Zero))

\* FuzzySet.copy
FuzzySet_copy(self) == FuzzySet_init(self.items, self.min).val

\* a mutant of FuzzySet_setitem: a weight equal to min_membership is dropped
FuzzySet_setitem_strict(self, elem, prob) ==
    IF ~check_probability(prob) THEN [self |-> self, ret |-> Raise("ValueError")]
    ELSE IF RLe(prob, self.min.v) \/ prob = Zero
    THEN [self |-> FS(DictDel(self.items, elem), self.min), ret |-> None]
    ELSE [self |-> FS(DictSet(self.items, elem, prob), self.min), ret |-> None]

\* FuzzySet.__setitem__
FuzzySet_setitem(self, elem, prob) ==
    IF ~check_probability(prob) THEN [self |-> self, ret |-> Raise("ValueError")]
    ELSE IF RLt(prob, self.min.v) \/ prob = Zero
    THEN [self |-> FS(DictDel(self.items, elem), self.min), ret |-> None]
    ELSE [self |-> FS(DictSet(self.items, elem, prob), self.min), ret |-> None]

\* the loop of scale from the i-th key on: "for k in self: self[k] *= n".
\* A weight that leaves [0,1] raises ValueError; a deletion makes the
\* dict iterator raise RuntimeError when it is asked for the next key.
RECURSIVE ScaleFrom(_, _, _)
ScaleFrom(self, i, n) ==
    IF i > Len(self.items) THEN [self |-> self, ret |-> None]
    ELSE LET k == self.items[i][1]
             e == FuzzySet_setitem(self, k, RMul(self.items[i][2], n))
         IN IF ~e.ret.ok THEN e
            ELSE IF Len(e.self.items) # Len(self.items)
            THEN [self |-> e.self, ret |-> Raise("RuntimeError")]
            ELSE ScaleFrom(e.self, i + 1, n)

\* FuzzySet.scale
FuzzySet_scale(self, n) == ScaleFrom(self, 1, n)

RECURSIVE SumWeights(_)
SumWeights(items) ==
    IF items = <<>> THEN Zero ELSE RAdd(Head(items)[2], SumWeights(Tail(items)))

\* FuzzySet.normalize
FuzzySet_normalize(self) ==
    LET s == SumWeights(self.items)
    IN IF RLt(Zero, s) THEN FuzzySet_scale(self, RInv(s))
       ELSE [self |-> self, ret |-> None]

\* the loop of intersection: tmp[k] = min(max_set[k], pr) for the items of
\* min_set, in order
RECURSIVE IntersectionLoop(_, _, _)
IntersectionLoop(tmp, src, max_set) ==
    IF src = <<>> THEN tmp
    ELSE LET k == Head(src)[1]
             pr == Head(src)[2]
         IN IntersectionLoop(
                FuzzySet_setitem(tmp, k, RMin(FuzzySet_getitem(max_set, k), pr)).self,
                Tail(src), max_set)

\* a mutant of FuzzySet_intersection: every key of the smaller set is kept
\* with its own weight
FuzzySet_intersection_keep(self, other) ==
    LET min_set == IF Len(other.items) < Len(self.items) THEN other ELSE self
    IN FS(min_set.items, PyFloat(Zero))

\* FuzzySet.intersection
FuzzySet_intersection(self, other) ==
    LET min_set == IF Len(other.items) < Len(self.items) THEN other ELSE self
        max_set == IF Len(other.items) < Len(self.items) THEN self ELSE other
    IN IntersectionLoop(EmptyFuzzySet, min_set.items, max_set)

\* the loop of union: tmp[k] = max(tmp[k], pr) for the items of min_set
RECURSIVE UnionLoop(_, _)
UnionLoop(tmp, src) ==
    IF src = <<>> THEN tmp
    ELSE LET k == Head(src)[1]
             pr == Head(src)[2]
         IN UnionLoop(FuzzySet_setitem(tmp, k, RMax(FuzzySet_getitem(tmp, k), pr)).self,
                      Tail(src))

\* a mutant of FuzzySet_union: the smaller set's weights overwrite the others
FuzzySet_union_overwrite(self, other) ==
    LET max_set == IF Len(other.items) > Len(self.items) THEN other ELSE self
        min_set == IF Len(other.items) > Len(self.items) THEN self ELSE other
    IN FS(DictUpdate(FuzzySet_init(max_set.items, PyFloat(Zero)).val.items, min_set.items),
          PyFloat(Zero))

\* FuzzySet.union
FuzzySet_union(self, other) ==
    LET max_set == IF Len(other.items) > Len(self.items) THEN other ELSE self
        min_set == IF Len(other.items) > Len(self.items) THEN self ELSE other
    IN UnionLoop(FuzzySet_init(max_set.items, PyFloat(Zero)).val, min_set.items)

\* FuzzySet.update and __ior__: the object afterwards
FuzzySet_update(self, other) == FS(FuzzySet_union(self, other).items, self.min)

\* FuzzySet.__iand__: the object afterwards
FuzzySet_iand(self, other) == FS(FuzzySet_intersection(self, other).items, self.min)

\* FuzzySet.issubset
FuzzySet_issubset(self, other) ==
    \A i \in DOMAIN self.items :
        ~RLt(FuzzySet_getitem(other, self.items[i][1]), self.items[i][2])

\* FuzzySet.issuperset
FuzzySet_issuperset(self, other) == FuzzySet_issubset(other, self)

\* ----------------------------------------------- byte-string workbench
\* the byte values the operands are drawn from
WorkBytes == {0, 2, 65}
\* the block sizes pad is tried with: small ones, and the two around the
\* longest pad unpad accepts
WorkBlockSizes == (1..MaxLen) \cup {UnpadMaxPad, UnpadMaxPad + 1}
WorkSchemes == {"pkcs#7", "zeros"}

\* a base too long for itertools.cycle, and a sequence longer than it
LongBase == [i \in 1..(InfiniteStreamLimit + 1) |-> i % ByteRange]
LongSelf == [i \in 1..(InfiniteStreamLimit + MaxLen) |-> (7 * i) % ByteRange]

BsInit ==
    /\ bs_self \in SeqsOf(WorkBytes, 0, MaxLen) \cup {LongSelf}
    /\ bs_other \in SeqsOf(WorkBytes, 0, MaxLen) \cup {LongBase}
    /\ bs_n = 0
    /\ bs_scheme = ""
    /\ bs_res = None
    /\ bs_hist = <<>>
    /\ bs_in = <<bs_self, bs_other>>

BsIdle ==
    /\ bs_self = <<>>
    /\ bs_other = <<>>
    /\ bs_n = 0
    /\ bs_scheme = ""
    /\ bs_res = None
    /\ bs_hist = <<"idle">>
    /\ bs_in = <<>>

\* r = self ^ other
BsXor ==
    /\ bs_hist = <<>>
    /\ LET e == SequenceMixin_xor(bs_self, bs_other)
       IN /\ bs_self' = e.self
          /\ bs_other' = e.other
          /\ bs_res' = e.ret
    /\ bs_hist' = <<"xor">>
    /\ UNCHANGED <<bs_n, bs_scheme, bs_in, bsOthers>>

\* r = r ^ other, on the result of a first xor
BsXorBack ==
    /\ bs_hist = <<"xor">>
    /\ bs_res.ok
    /\ LET e == SequenceMixin_xor(bs_res.val, bs_other)
       IN /\ bs_other' = e.other
          /\ bs_res' = e.ret
    /\ bs_hist' = <<"xor", "xor">>
    /\ UNCHANGED <<bs_self, bs_n, bs_scheme, bs_in, bsOthers>>

\* r = self ^ other.inf()
BsXorInf ==
    /\ bs_hist = <<>>
    /\ bs_res' = Ok(SequenceMixin_xor_inf(bs_self, bs_other))
    /\ bs_hist' = <<"xor inf">>
    /\ UNCHANGED <<bs_self, bs_other, bs_n, bs_scheme, bs_in, bsOthers>>

\* r = self << other
BsLshift ==
    /\ bs_hist = <<>>
    /\ bs_res' = Ok(SequenceMixin_lshift(bs_self, bs_other))
    /\ bs_hist' = <<"lshift">>
    /\ UNCHANGED <<bs_self, bs_other, bs_n, bs_scheme, bs_in, bsOthers>>

\* self <<= other, on a mutable self
BsIlshift ==
    /\ bs_hist = <<>>
    /\ LET e == MutableSequenceMixin_ilshift(bs_self, bs_other)
       IN /\ bs_self' = e.self
          /\ bs_res' = e.ret
    /\ bs_hist' = <<"ilshift">>
    /\ UNCHANGED <<bs_other, bs_n, bs_scheme, bs_in, bsOthers>>

\* r = self.pad(n, scheme)
BsPad ==
    /\ bs_hist = <<>>
    /\ \E n \in WorkBlockSizes, p \in WorkSchemes :
          /\ bs_n' = n
          /\ bs_scheme' = p
          /\ bs_res' = SequenceMixin_pad(bs_self, n, p)
    /\ bs_hist' = <<"pad">>
    /\ UNCHANGED <<bs_self, bs_other, bs_in, bsOthers>>

\* r = r.unpad(scheme), on the result of a pad
BsUnpad ==
    /\ bs_hist = <<"pad">>
    /\ bs_res.ok
    /\ bs_res' = SequenceMixin_unpad(bs_res.val, bs_scheme)
    /\ bs_hist' = <<"pad", "unpad">>
    /\ UNCHANGED <<bs_self, bs_other, bs_n, bs_scheme, bs_in, bsOthers>>

BsNext ==
    BsXor \/ BsXorBack \/ BsXorInf \/ BsLshift \/ BsIlshift \/ BsPad \/ BsUnpad

\* FuzzySet.most_likely(n): n is <<>> when omitted and <<n>> when given
FuzzySet_most_likely(self, n) ==
    LET largest == nlargest(IF n = <<>> THEN 1 ELSE n[1], self.items)
    IN IF largest = <<>> THEN Raise("IndexError")
       ELSE IF n = <<>> THEN Ok(largest[1][1])
       ELSE Ok([i \in DOMAIN largest |-> largest[i][1]])

\* ------------------------------------- a FuzzySet under operations
\* candidates (stand-ins for byte strings, in their natural order)
FzKeys == {1, 2, 3}
\* weights a caller may store
FzWeights == {<<1, 4>>, <<1, 2>>, <<1, 1>>}
\* weights a caller may try to assign: also 0 and values outside [0,1]
FzAssigned == FzWeights \cup {Zero, <<3, 2>>, <<0 - 1, 2>>}
\* thresholds, as floats and as ints
FzMins == {PyFloat(Zero), PyFloat(<<1, 2>>), PyInt(0), PyInt(1)}
\* scale factors
FzFactors == {<<1, 2>>, One, <<2, 1>>}
\* arguments of cut_off: a count or a threshold
FzCuts == {PyInt(0), PyInt(1), PyInt(2), PyFloat(<<1, 2>>), PyFloat(One)}
\* arguments of most_likely: none, or a count
FzTops == {<<>>} \cup {<<n>> : n \in 0..MaxItems}
\* dicts of at most n items over the keys ks with weights ws
DictsOf(ks, ws, n) ==
    {d \in SeqsOf(ks \X ws, 0, n) : \A i, j \in DOMAIN d : d[i][1] = d[j][1] => i = j}
\* what the constructor is given, read as pairs, in each form it accepts
FzConstructorPairs ==
         {AsPairs("tuple", t, <<>>) : t \in SeqsOf(FzKeys \X FzWeights, 0, MaxItems)}
    \cup {AsPairs("keys", ks, w) : ks \in SeqsOf(FzKeys, 0, MaxItems), w \in FzAssigned}
    \cup {AsPairs("zip", ks, ws) : ks \in SeqsOf(FzKeys, 0, MaxItems),
                                     ws \in SeqsOf(FzAssigned, 0, 1)}
    \cup {AsPairs("dict", d, <<>>) : d \in DictsOf(FzKeys, FzAssigned, 1)}
\* the sets given to update, &=, union and intersection
FzOthers ==
    {FuzzySet_init(d, m).val :
        d \in DictsOf({2, 3}, {<<1, 4>>, <<1, 1>>}, MaxItems),
        m \in {PyFloat(Zero), PyFloat(<<1, 4>>)}}

\* before the constructor ran
FzInit ==
    /\ fz = EmptyFuzzySet
    /\ fz_arg = EmptyFuzzySet
    /\ fz_res = None
    /\ fz_op = "new"
    /\ fz_ops = 0

FzIdle ==
    /\ fz = EmptyFuzzySet
    /\ fz_arg = EmptyFuzzySet
    /\ fz_res = None
    /\ fz_op = "idle"
    /\ fz_ops = 0

\* an operation on the constructed set may run
FzReady == fz_op \notin {"new", "idle", "init failed"} /\ fz_ops < MaxOps

\* the effect e = [self, ret] of the operation op given the set arg
FzApply(op, e, arg) ==
    /\ fz' = e.self
    /\ fz_res' = e.ret
    /\ fz_op' = op
    /\ fz_ops' = fz_ops + 1
    /\ fz_arg' = arg
    /\ UNCHANGED fzOthers

\* fz = FuzzySet(...), in each of the forms the constructor accepts
FzConstruct ==
    /\ fz_op = "new"
    /\ \E m \in FzMins, pairs \in FzConstructorPairs :
            LET r == FuzzySet_init(pairs, m)
            IN /\ fz' = IF r.ok THEN r.val ELSE fz
               /\ fz_res' = IF r.ok THEN None ELSE r
               /\ fz_op' = IF r.ok THEN "init" ELSE "init failed"
               /\ fz_arg' = FS(pairs, m)
    /\ UNCHANGED <<fz_ops, fzOthers>>

\* fz[k] = w
FzSetItem ==
    /\ FzReady
    /\ \E k \in FzKeys, w \in FzAssigned :
          FzApply("setitem", FuzzySet_setitem(fz, k, w), FS(<<<<k, w>>>>, fz.min))

\* fz.min_membership = m
FzSetMin ==
    /\ FzReady
    /\ \E m \in FzMins \cup {PyFloat(<<3, 2>>)} :
          FzApply("min_membership", FuzzySet_set_min_membership(fz, m), EmptyFuzzySet)

\* fz.cut_off(n)
FzCutOff ==
    /\ FzReady
    /\ \E n \in FzCuts :
          FzApply("cut_off", [self |-> FuzzySet_cut_off(fz, n), ret |-> None], EmptyFuzzySet)

\* fz.scale(n)
FzScale ==
    /\ FzReady
    /\ \E n \in FzFactors : FzApply("scale", FuzzySet_scale(fz, n), EmptyFuzzySet)

\* fz.normalize()
FzNormalize ==
    /\ FzReady
    /\ FzApply("normalize", FuzzySet_normalize(fz), fz)

\* fz.update(other), fz |= other
FzUpdate ==
    /\ FzReady
    /\ \E o \in FzOthers :
          FzApply("update", [self |-> FuzzySet_update(fz, o), ret |-> None], o)

\* fz &= other
FzIAnd ==
    /\ FzReady
    /\ \E o \in FzOthers :
          FzApply("iand", [self |-> FuzzySet_iand(fz, o), ret |-> None], o)

\* r = fz.union(other), r = fz | other
FzUnion ==
    /\ FzReady
    /\ \E o \in FzOthers :
          FzApply("union", [self |-> fz, ret |-> Ok(FuzzySet_union(fz, o))], o)

\* r = fz.intersection(other), r = fz & other
FzIntersection ==
    /\ FzReady
    /\ \E o \in FzOthers :
          FzApply("intersection",
                  [self |-> fz, ret |-> Ok(FuzzySet_intersection(fz, o))], o)

\* r = fz.most_likely(), r = fz.most_likely(n)
FzMostLikely ==
    /\ FzReady
    /\ \E n \in FzTops :
          FzApply("most_likely", [self |-> fz, ret |-> FuzzySet_most_likely(fz, n)], n)

FzNext ==
    \/ FzConstruct
    \/ FzSetItem
    \/ FzSetMin
    \/ FzCutOff
    \/ FzScale
    \/ FzNormalize
    \/ FzUpdate
    \/ FzIAnd
    \/ FzUnion
    \/ FzIntersection
    \/ FzMostLikely

\* ------------------------------------------- attacks/__init__.py: brute_force
\* (B(k) for k in product(range(256), repeat=n)): the keys of n bytes, the
\* last byte varying fastest
RECURSIVE KeysOfLength(_)
KeysOfLength(n) ==
    IF n = 0 THEN << <<>> >>
    ELSE LET shorter == KeysOfLength(n - 1)
             m == Len(shorter)
         IN [i \in 1..(m * ByteRange) |->
                Append(shorter[((i - 1) \div ByteRange) + 1], (i - 1) % ByteRange)]

\* the score functions a caller may pass: each maps a decrypted message to a
\* number.  "magic" is the is_bmp of the docstring on one byte.
BfScoreFuncs == {"magic", "graded", "wild"}
score_func(f, m) ==
    LET first == IF m = <<>> THEN 0 - 1 ELSE m[1]
    IN CASE f = "magic" -> IF first = 66 THEN One ELSE Zero
         [] f = "graded" -> IF first = 66 THEN <<1, 2>>
                            ELSE IF first % 2 = 1 THEN <<1, 4>> ELSE Zero
         [] f = "wild" -> IF first = 66 THEN <<2, 1>>
                          ELSE IF first % 2 = 1 THEN <<0 - 1, 1>> ELSE <<1, 2>>

\* the keys a key space yields, in the order it yields them; a key space is
\* [kind |-> "int", n |-> _], [kind |-> "iterable", keys |-> _] or
\* [kind |-> "FuzzySet", fs |-> _]
KeysOfSpace(key_space) ==
    CASE key_space.kind = "int" -> KeysOfLength(key_space.n)
      [] key_space.kind = "iterable" -> key_space.keys
      [] key_space.kind = "FuzzySet" ->
            [i \in DOMAIN key_space.fs.items |-> key_space.fs.items[i][1]]

\* prob.get(k, 1)
PriorOf(key_space, k) ==
    IF key_space.kind = "FuzzySet" THEN DictGet(key_space.fs.items, k, One) ELSE One

\* score_func(ciphertext ^ k.inf()) * prob.get(k, 1)
Likehood(ciphertext, f, key_space, k) ==
    RMul(score_func(f, SequenceMixin_xor_inf(ciphertext, k)), PriorOf(key_space, k))

\* a mutant of brute_force: the prior weight of the key is not applied
brute_force_noprior(ciphertext, f, key_space, min_score) ==
    IF ~(RLe(Zero, min_score.v) /\ RLe(min_score.v, One)) THEN Raise("AssertionError")
    ELSE LET keys == KeysOfSpace(key_space)
         IN FuzzySet_init(
                [i \in DOMAIN keys |->
                    <<keys[i], score_func(f, SequenceMixin_xor_inf(ciphertext, keys[i]))>>],
                min_score)

\* brute_force
brute_force(ciphertext, f, key_space, min_score) ==
    IF ~(RLe(Zero, min_score.v) /\ RLe(min_score.v, One)) THEN Raise("AssertionError")
    ELSE LET keys == KeysOfSpace(key_space)
             key_and_likehood ==
                [i \in DOMAIN keys |->
                    <<keys[i], Likehood(ciphertext, f, key_space, keys[i])>>]
         IN FuzzySet_init(AsPairs("tuple", key_and_likehood, <<>>), min_score)

\* the inputs brute_force is tried with
BfCipherBytes == {2, 67}
BfCiphertexts == SeqsOf(BfCipherBytes, 0, MaxItems)
BfKeys == {<<1>>, <<64>>, <<1, 64>>}
BfPriors == {<<1, 2>>, One}
BfMinScores == {PyInt(0), PyFloat(<<1, 4>>), PyFloat(<<1, 2>>), PyInt(1), PyFloat(<<5, 4>>)}
BfKeySpaces ==
    {[kind |-> "int", n |-> n] : n \in 0..1}
    \cup {[kind |-> "iterable", keys |-> ks] : ks \in SeqsOf(BfKeys, 0, MaxItems)}
    \cup {[kind |-> "FuzzySet", fs |-> FuzzySet_init(d, PyFloat(Zero)).val] :
             d \in DictsOf(BfKeys, BfPriors, MaxItems)}

BfInit ==
    /\ bf_in \in [ciphertext : BfCiphertexts, score_func : BfScoreFuncs,
                  key_space : BfKeySpaces, min_score : BfMinScores]
    /\ bf_res = None
    /\ bf_pc = "new"

BfIdle ==
    /\ bf_in = <<>>
    /\ bf_res = None
    /\ bf_pc = "idle"

\* keys = brute_force(ciphertext, score_func, key_space, min_score)
BfBruteForce ==
    /\ bf_pc = "new"
    /\ bf_res' = brute_force(bf_in.ciphertext, bf_in.score_func,
                             bf_in.key_space, bf_in.min_score)
    /\ bf_pc' = "done"
    /\ UNCHANGED <<bf_in, bfOthers>>

BfNext == BfBruteForce

\* ------------------------------------------- attacks/__init__.py: freq_attack
\* collections.Counter(seq): each distinct element with the number of times it
\* occurs, in the order the elements are first seen
Counter(seq) ==
    LET first == SelectSeq([i \in DOMAIN seq |-> i],
                           LAMBDA i : \A j \in 1..(i - 1) : seq[j] # seq[i])
    IN [n \in DOMAIN first |->
            <<seq[first[n]],
              <<Cardinality({j \in DOMAIN seq : seq[j] = seq[first[n]]}), 1>> >>]

\* NgramsView.__iter__: the n-grams of base, overlapping
NgramsView_iter(base, n) == [i \in 1..(Len(base) - n + 1) |-> SubSeq(base, i, i + n - 1)]

\* SequenceStatsMixin.most_common: the n most frequent elements, the most
\* frequent first, equally frequent ones in the order they are first seen
SequenceStatsMixin_most_common(seq, n) ==
    LET top == nlargest(n, Counter(seq))
    IN IF top = <<>> THEN Raise("ValueError")     \* elems, _ = zip(*[])
       ELSE Ok([i \in DOMAIN top |-> top[i][1]])

\* the n-grams a caller expects in the plaintext: [kind |-> "list", ngrams |-> _]
\* or [kind |-> "FuzzySet", fs |-> _]; iterating either yields the n-grams
PlainNgrams(most_common_plain_ngrams) ==
    IF most_common_plain_ngrams.kind = "FuzzySet"
    THEN [i \in DOMAIN most_common_plain_ngrams.fs.items |->
             most_common_plain_ngrams.fs.items[i][1]]
    ELSE most_common_plain_ngrams.ngrams

\* prob.get(p, 1)
PlainPrior(most_common_plain_ngrams, p) ==
    IF most_common_plain_ngrams.kind = "FuzzySet"
    THEN DictGet(most_common_plain_ngrams.fs.items, p, One)
    ELSE One

\* itertools.product(a, b): every pair, the second component varying fastest
Product(a, b) ==
    [i \in 1..(Len(a) * Len(b)) |->
        <<a[((i - 1) \div Len(b)) + 1], b[((i - 1) % Len(b)) + 1]>>]

\* a mutant of freq_attack: the pairs are enumerated plain n-gram first
freq_attack_swapped(ciphertext, most_common_plain_ngrams, T) ==
    IF Len(ciphertext) < 1 THEN Raise("ValueError")
    ELSE LET top == SequenceStatsMixin_most_common(NgramsView_iter(ciphertext, 1), T)
             plain == SelectSeq(PlainNgrams(most_common_plain_ngrams),
                                LAMBDA ngram : Len(ngram) = 1)
         IN IF ~top.ok THEN top
            ELSE LET pc == Product(plain, top.val)
                     tmp == FuzzySet_init(
                                [i \in DOMAIN pc |->
                                    <<XorZip(pc[i][2], pc[i][1]),
                                      PlainPrior(most_common_plain_ngrams, pc[i][1])>>],
                                PyFloat(Zero))
                 IN IF ~tmp.ok THEN tmp
                    ELSE Ok(FuzzySet_update(EmptyFuzzySet, tmp.val))

\* freq_attack with op = xor
freq_attack(ciphertext, most_common_plain_ngrams, T) ==
    IF Len(ciphertext) < 1 THEN Raise("ValueError")     \* NgramsView.__init__
    ELSE LET _cipher_ngrams ==
                SequenceStatsMixin_most_common(NgramsView_iter(ciphertext, 1), T)
             _plain_ngrams == SelectSeq(PlainNgrams(most_common_plain_ngrams),
                                        LAMBDA ngram : Len(ngram) = 1)
         IN IF ~_cipher_ngrams.ok THEN _cipher_ngrams
            ELSE LET cp == Product(_cipher_ngrams.val, _plain_ngrams)
                     tmp == FuzzySet_init(
                                AsPairs("tuple",
                                    [i \in DOMAIN cp |->
                                        <<XorZip(cp[i][1], cp[i][2]),
                                          PlainPrior(most_common_plain_ngrams, cp[i][2])>>],
                                    <<>>),
                                PyFloat(Zero))
                 IN IF ~tmp.ok THEN tmp
                    ELSE Ok(FuzzySet_update(EmptyFuzzySet, tmp.val))

\* the inputs freq_attack is tried with
FaCipherBytes == {1, 2}
FaCiphertexts == SeqsOf(FaCipherBytes, 0, MaxLen)
FaNgrams == {<<0>>, <<3>>, <<0, 3>>}
FaPriors == {<<1, 2>>, One}
FaTops == 0..MaxItems
FaPlains ==
    {[kind |-> "list", ngrams |-> ns] : ns \in SeqsOf(FaNgrams, 0, MaxItems)}
    \cup {[kind |-> "FuzzySet", fs |-> FuzzySet_init(d, PyFloat(Zero)).val] :
             d \in DictsOf(FaNgrams, FaPriors, MaxItems)}

FaInit ==
    /\ fa_in \in [ciphertext : FaCiphertexts, most_common_plain_ngrams : FaPlains,
                  cipher_ngram_top : FaTops]
    /\ fa_res = None
    /\ fa_pc = "new"

FaIdle ==
    /\ fa_in = <<>>
    /\ fa_res = None
    /\ fa_pc = "idle"

\* keys = freq_attack(ciphertext, most_common_plain_ngrams, cipher_ngram_top)
FaFreqAttack ==
    /\ fa_pc = "new"
    /\ fa_res' = freq_attack(fa_in.ciphertext, fa_in.most_common_plain_ngrams,
                             fa_in.cipher_ngram_top)
    /\ fa_pc' = "done"
    /\ UNCHANGED <<fa_in, faOthers>>

FaNext == FaFreqAttack

\* ------------------------------------------- fuzzy_set.py: join_fuzzy_sets
\* j.join(byte_seq): the pieces in order with j between them
RECURSIVE JoinBytes(_, _)
JoinBytes(j, byte_seq) ==
    IF byte_seq = <<>> THEN <<>>
    ELSE IF Len(byte_seq) = 1 THEN byte_seq[1]
    ELSE byte_seq[1] \o j \o JoinBytes(j, Tail(byte_seq))

\* itertools.product(*(fs.items() for fs in iterable)): every combination of
\* one item per set, the item of the last set varying fastest
RECURSIVE AllPossibilities(_)
AllPossibilities(iterable) ==
    IF iterable = <<>> THEN << <<>> >>
    ELSE LET first == Head(iterable).items
             rest == AllPossibilities(Tail(iterable))
         IN [i \in 1..(Len(first) * Len(rest)) |->
                <<first[((i - 1) \div Len(rest)) + 1]>> \o rest[((i - 1) % Len(rest)) + 1]]

\* the loop of xxx: seq_prob = 1; for p in probs: seq_prob *= p
RECURSIVE SeqProb(_)
SeqProb(elems) ==
    IF elems = <<>> THEN One ELSE RMul(Head(elems)[2], SeqProb(Tail(elems)))

\* the tail of join_fuzzy_sets, which runs when cut_off < 1: the full product,
\* filtered by weight
join_product(iterable, cut_off, j) ==
    LET all_possibilities == AllPossibilities(iterable)
    IN IF iterable = <<>> THEN Raise("ValueError")  \* byte_seq, probs = zip(*())
       ELSE LET kept == SelectSeq(all_possibilities,
                                  LAMBDA elems : ~RLt(SeqProb(elems), cut_off.v))
                tmp == [i \in DOMAIN kept |->
                           <<JoinBytes(j, [n \in DOMAIN kept[i] |-> kept[i][n][1]]),
                             SeqProb(kept[i])>>]
            IN FuzzySet_init(AsPairs("dict", DictUpdate(<<>>, tmp), <<>>), PyFloat(Zero))

\* functools.reduce(mul_func, counters)
RECURSIVE ProductOf(_)
ProductOf(counters) ==
    IF counters = <<>> THEN 1 ELSE Head(counters) * ProductOf(Tail(counters))

\* sorted(vals) for vals a list of (pr, idx): by weight, then by set index
RECURSIVE SortedVals(_)
SortedVals(vals) ==
    IF vals = <<>> THEN <<>>
    ELSE LET e == Head(vals)
             rest == SortedVals(Tail(vals))
             less(x) == RLt(x[1], e[1]) \/ (x[1] = e[1] /\ x[2] < e[2])
         IN SelectSeq(rest, less) \o <<e>> \o SelectSeq(rest, LAMBDA x : ~less(x))

\* a mutant of the shrink loop: the discard that brings the product down to the
\* cutoff is kept
RECURSIVE ShrinkLoop_keep(_, _, _, _)
ShrinkLoop_keep(counters, vals, i, cut_off) ==
    IF i > Len(vals) THEN counters
    ELSE LET idx == vals[i][2]
             less == [n \in DOMAIN counters |->
                        IF n = idx THEN counters[n] - 1 ELSE counters[n]]
         IN IF counters[idx] = 1 THEN ShrinkLoop_keep(counters, vals, i + 1, cut_off)
            ELSE IF RLe(<<ProductOf(less), 1>>, cut_off.v) THEN less
            ELSE ShrinkLoop_keep(less, vals, i + 1, cut_off)

\* the shrink loop of the cardinality mode from the i-th value on: the counters
\* when the loop ends
RECURSIVE ShrinkLoop(_, _, _, _)
ShrinkLoop(counters, vals, i, cut_off) ==
    IF i > Len(vals) THEN counters
    ELSE LET idx == vals[i][2]
             less == [n \in DOMAIN counters |->
                        IF n = idx THEN counters[n] - 1 ELSE counters[n]]
         IN IF counters[idx] = 1 THEN ShrinkLoop(counters, vals, i + 1, cut_off)
            ELSE IF RLe(<<ProductOf(less), 1>>, cut_off.v) THEN counters
            ELSE ShrinkLoop(less, vals, i + 1, cut_off)

\* [(pr, idx) for pr in fs.values()] for every set, flattened
RECURSIVE ValsFrom(_, _)
ValsFrom(iterable, idx) ==
    IF idx > Len(iterable) THEN <<>>
    ELSE [n \in DOMAIN iterable[idx].items |-> <<iterable[idx].items[n][2], idx>>]
         \o ValsFrom(iterable, idx + 1)

\* a mutant of join_fuzzy_sets: the weight of a combination is the smallest
\* of its fragment weights
join_fuzzy_sets_min(iterable, cut_off, j) ==
    IF RLt(cut_off.v, Zero) THEN Raise("AssertionError")
    ELSE IF iterable = <<>> THEN Raise("ValueError")
    ELSE LET all == AllPossibilities(iterable)
             w(elems) == CHOOSE x \in {elems[n][2] : n \in DOMAIN elems} :
                            \A n \in DOMAIN elems : RLe(x, elems[n][2])
             kept == SelectSeq(all, LAMBDA elems : ~RLt(w(elems), cut_off.v))
             tmp == [i \in DOMAIN kept |->
                        <<JoinBytes(j, [n \in DOMAIN kept[i] |-> kept[i][n][1]]),
                          w(kept[i])>>]
         IN FuzzySet_init(DictUpdate(<<>>, tmp), PyFloat(Zero))

\* counters = [len(fs) for fs in iterable]
Counters(iterable) == [i \in DOMAIN iterable |-> Len(iterable[i].items)]

\* the counters of the cardinality mode after the shrink loop
ShrinkCounters(iterable, cut_off) ==
    ShrinkLoop(Counters(iterable), SortedVals(ValsFrom(iterable, 1)), 1, cut_off)

\* sets of the cardinality mode: the shrunk copies of the input sets
ShrunkSets(iterable, cut_off) ==
    LET counters == ShrinkCounters(iterable, cut_off)
    IN [i \in DOMAIN iterable |->
           FuzzySet_cut_off(FuzzySet_copy(iterable[i]), PyInt(counters[i]))]

\* upper_set of the cardinality mode: the full product of the shrunk sets
UpperSet(iterable, cut_off, j) ==
    join_product(ShrunkSets(iterable, cut_off), PyFloat(Zero), j)

\* join_fuzzy_sets
join_fuzzy_sets(iterable, cut_off, j) ==
    IF RLt(cut_off.v, Zero) THEN Raise("AssertionError")
    ELSE IF RLe(One, cut_off.v)
    THEN LET upper_set == UpperSet(iterable, cut_off, j)
         IN IF ~upper_set.ok THEN upper_set
            ELSE Ok(FuzzySet_cut_off(upper_set.val, cut_off))
    ELSE join_product(iterable, cut_off, j)

\* the inputs join_fuzzy_sets is tried with
MaxSets == 2
JnKeys == {<<1>>, <<1, 1>>, <<2>>}
JnWeights == {<<1, 2>>, One}
JnPool == {FuzzySet_init(d, PyFloat(Zero)).val : d \in DictsOf(JnKeys, JnWeights, MaxItems)}
JnCutOffs == {PyInt(0), PyFloat(<<1, 4>>), PyFloat(<<1, 2>>), PyInt(1), PyInt(2),
              PyFloat(<<2, 1>>), PyInt(0 - 1)}
JnSeparators == {<<>>, <<45>>}

\* a set of two fragments next to a set of three, of unlike weights
JnWide ==
    {<<FuzzySet_init(<<<<<<1>>, w1>>, <<<<2>>, w2>>>>, PyFloat(Zero)).val,
       FuzzySet_init(<<<<<<3>>, w3>>, <<<<4>>, w4>>, <<<<5>>, w5>>>>, PyFloat(Zero)).val>> :
        w1 \in {<<3, 5>>}, w2 \in {<<1, 2>>, <<3, 5>>},
        w3 \in {One, <<11, 20>>}, w4 \in {One, <<11, 20>>, <<13, 25>>},
        w5 \in {<<11, 20>>, <<13, 25>>}}
JnWideCutOffs == {PyInt(MaxSets), PyInt(MaxSets + 1)}

JnInit ==
    /\ jn_in \in [iterable : SeqsOf(JnPool, 0, MaxSets), cut_off : JnCutOffs,
                  j : JnSeparators]
               \cup [iterable : JnWide, cut_off : JnWideCutOffs, j : JnSeparators]
    /\ jn_res = None
    /\ jn_pc = "new"

JnIdle ==
    /\ jn_in = <<>>
    /\ jn_res = None
    /\ jn_pc = "idle"

\* r = join_fuzzy_sets(iterable, cut_off, j)
JnJoin ==
    /\ jn_pc = "new"
    /\ jn_res' = join_fuzzy_sets(jn_in.iterable, jn_in.cut_off, jn_in.j)
    /\ jn_pc' = "done"
    /\ UNCHANGED <<jn_in, jnOthers>>

JnNext == JnJoin

\* -------------------------- attacks/block_ciphers.py: the CBC padding attack
\* NblocksView.__iter__: the blocks of bz bytes of base, the last one shorter
\* when bz does not divide len(base)
NblocksView_iter(base, bz) ==
    [i \in 1..((Len(base) + bz - 1) \div bz) |-> Slice(base, (i - 1) * bz, i * bz)]

\* B('').join(blocks)
RECURSIVE Concat(_)
Concat(blocks) == IF blocks = <<>> THEN <<>> ELSE Head(blocks) \o Concat(Tail(blocks))

\* The cipher the victim uses: a keyed permutation of the blocks (each byte is
\* xor-ed with the key, shifted by its position, and the block is rotated).
ToyEncryptBlock(key, blk) ==
    LET n == Len(blk)
        sub == [i \in 1..n |-> (xor(blk[i], key) + i) % ByteRange]
    IN [i \in 1..n |-> sub[(i % n) + 1]]
ToyDecryptBlock(key, blk) ==
    LET n == Len(blk)
        sub == [i \in 1..n |-> blk[((i + n - 2) % n) + 1]]
    IN [i \in 1..n |-> xor((sub[i] + ByteRange - i) % ByteRange, key)]

\* CBC encryption of the blocks of an already padded plaintext
RECURSIVE CbcEncryptBlocks(_, _, _)
CbcEncryptBlocks(key, prev, blocks) ==
    IF blocks = <<>> THEN <<>>
    ELSE LET c == ToyEncryptBlock(key, XorZip(Head(blocks), prev))
         IN c \o CbcEncryptBlocks(key, c, Tail(blocks))
CbcEncrypt(key, iv, padded, bsize) ==
    CbcEncryptBlocks(key, iv, NblocksView_iter(padded, bsize))

\* CBC decryption of a ciphertext that carries its IV as first block
CbcDecrypt(key, blocks) ==
    Concat([k \in 1..(Len(blocks) - 1) |->
                XorZip(ToyDecryptBlock(key, blocks[k + 1]), blocks[k])])

\* the padding oracle: does the decryption of the forged ciphertext end in a
\* PKCS#7 pad that unpad accepts?
PaddingOracle(key, bsize, forged_ciphertext) ==
    SequenceMixin_unpad(CbcDecrypt(key, NblocksView_iter(forged_ciphertext, bsize)),
                        "pkcs#7").ok

\* lst with its element at Python index -2 replaced
SetPenultimate(lst, v) ==
    [k \in DOMAIN lst |-> IF k = Len(lst) - 1 THEN v ELSE lst[k]]
\* seq[i] = v for a 0-based i
SetByte(seq, i, v) == [k \in DOMAIN seq |-> IF k = i + 1 THEN v ELSE seq[k]]

\* The byte strings of the attack are objects: cbc_heap holds the bytes of
\* each, an object being its position there, and cblocks and prev_cblock
\* hold objects.  The arguments of the caller are the first ones.
CallerCiphertext == 1
CallerIv == 2

\* a new object holding val, the last of the heap afterwards
Alloc(heap, val) == Append(heap, val)

\* the bytes of a list of objects
Deref(heap, objs) == [k \in DOMAIN objs |-> heap[objs[k]]]

\* obj[i] = v, for a 0-based i: the heap afterwards
SetItem(heap, obj, i, v) ==
    [k \in DOMAIN heap |-> IF k = obj THEN SetByte(heap[k], i, v) ELSE heap[k]]

\* a mutant of ForgedBlock: the block is forged in the object cblocks[-2]
ForgedBlock_inplace(heap, cblocks, val) ==
    [heap |-> [k \in DOMAIN heap |->
                  IF k = cblocks[Len(cblocks) - 1] THEN val ELSE heap[k]],
     cblocks |-> cblocks]

\* cblocks[-2] = B(val, mutable=True): a new object takes the place of the
\* penultimate block in the list
ForgedBlock(heap, cblocks, val) ==
    [heap |-> Alloc(heap, val),
     cblocks |-> SetPenultimate(cblocks, Len(heap) + 1)]

\* B(range(bsize, 0, -1))
RangeDown(bsize) == [k \in 1..bsize |-> bsize - k + 1]

\* the inputs of the attack
BlockSize == 2
CbcKeys == {0, 165}
CbcIVs == {Repeat(0, BlockSize), [k \in 1..BlockSize |-> 17 * k]}
CbcPlainBytes == {1, 2, 65}
CbcPlaintexts == SeqsOf(CbcPlainBytes, BlockSize - 1, BlockSize + 1)

\* the victim encrypts; the attacker holds the ciphertext, and the IV or not
CbcInit ==
    /\ \E key \in CbcKeys, iv \in CbcIVs, plaintext \in CbcPlaintexts, known \in BOOLEAN :
          cbc_in = [key |-> key, bsize |-> BlockSize, plaintext |-> plaintext,
                    padded |-> SequenceMixin_pad(plaintext, BlockSize, "pkcs#7").val,
                    victim_iv |-> iv,
                    iv |-> IF known THEN Ok(iv) ELSE None,
                    ciphertext |->
                        CbcEncrypt(key, iv,
                            SequenceMixin_pad(plaintext, BlockSize, "pkcs#7").val,
                            BlockSize)]
    /\ cbc_heap = IF cbc_in.iv # None THEN <<cbc_in.ciphertext, cbc_in.iv.val>>
                  ELSE <<cbc_in.ciphertext>>
    /\ cbc_pc = "new"
    /\ cbc_cblocks = <<>>
    /\ cbc_p = <<>>
    /\ cbc_prev = 0
    /\ cbc_x = <<>>
    /\ cbc_i = 0
    /\ cbc_n = 0
    /\ cbc_ret = None

CbcIdle ==
    /\ cbc_in = <<>>
    /\ cbc_heap = <<>>
    /\ cbc_pc = "idle"
    /\ cbc_cblocks = <<>>
    /\ cbc_p = <<>>
    /\ cbc_prev = 0
    /\ cbc_x = <<>>
    /\ cbc_i = 0
    /\ cbc_n = 0
    /\ cbc_ret = None

\* decrypt_cbc_padding_attack, up to its loop: iv + ciphertext is a new
\* object, and so is each block of the list
CbcAttack ==
    /\ cbc_pc = "new"
    /\ cbc_p' = <<>>
    /\ LET known == cbc_in.iv # None
           joined == IF known
                     THEN cbc_heap[CallerIv] \o cbc_heap[CallerCiphertext]
                     ELSE cbc_heap[CallerCiphertext]
           heap == IF known THEN Alloc(cbc_heap, joined) ELSE cbc_heap
           blocks == NblocksView_iter(joined, cbc_in.bsize)
       IN /\ cbc_heap' = heap \o blocks
          /\ cbc_cblocks' = [k \in DOMAIN blocks |-> Len(heap) + k]
    /\ cbc_pc' = "while"
    /\ UNCHANGED <<cbc_in, cbc_prev, cbc_x, cbc_i, cbc_n, cbc_ret, cbcOthers>>

\* while len(cblocks) > 1: decrypt_cbc_last_blk_padding_attack is entered;
\* prev_cblock is the object cblocks[-2], x a new one
CbcLastBlkBegin ==
    /\ cbc_pc = "while"
    /\ Len(cbc_cblocks) > 1
    /\ LET prev_cblock == cbc_cblocks[Len(cbc_cblocks) - 1]
       IN /\ cbc_prev' = prev_cblock
          /\ IF are_same_length_or_fail(RangeDown(cbc_in.bsize), cbc_heap[prev_cblock])
             THEN /\ cbc_x' = XorZip(RangeDown(cbc_in.bsize), cbc_heap[prev_cblock])
                  /\ cbc_i' = cbc_in.bsize - 1
                  /\ cbc_pc' = "for i"
                  /\ UNCHANGED cbc_ret
             ELSE /\ cbc_ret' = Raise("ValueError")
                  /\ cbc_pc' = "done"
                  /\ UNCHANGED <<cbc_x, cbc_i>>
    /\ UNCHANGED <<cbc_in, cbc_cblocks, cbc_p, cbc_heap, cbc_n, cbcOthers>>

\* for i: the penultimate block is forged for the byte at i
CbcForge ==
    /\ cbc_pc = "for i"
    /\ LET i == cbc_i
           bsize == cbc_in.bsize
           prefix == Slice(cbc_heap[cbc_prev], 0, i)
           padn == bsize - i
           posfix == XorZip(Repeat(padn, bsize - i - 1), Slice(cbc_x, i + 1, bsize))
           e == ForgedBlock(cbc_heap, cbc_cblocks, prefix \o <<0>> \o posfix)
       IN /\ cbc_heap' = e.heap
          /\ cbc_cblocks' = e.cblocks
    /\ cbc_n' = 0
    /\ cbc_pc' = "for n"
    /\ UNCHANGED <<cbc_in, cbc_p, cbc_prev, cbc_x, cbc_i, cbc_ret, cbcOthers>>

\* for n: one guess, with its call of the oracle unless n is the original byte
CbcGuess ==
    /\ cbc_pc = "for n"
    /\ LET i == cbc_i
           n == cbc_n
           padn == cbc_in.bsize - i
           skip == cbc_heap[cbc_prev][i + 1] = n
           heap == SetItem(cbc_heap, cbc_cblocks[Len(cbc_cblocks) - 1], i, n)
           forged_ciphertext == Concat(Deref(heap, cbc_cblocks))
           good == ~skip /\ PaddingOracle(cbc_in.key, cbc_in.bsize, forged_ciphertext)
           over == good \/ n + 1 = ByteRange
       IN /\ cbc_heap' = IF skip THEN cbc_heap ELSE heap
          /\ cbc_x' = IF good THEN SetByte(cbc_x, i, xor(padn, n)) ELSE cbc_x
          /\ cbc_n' = IF over THEN cbc_n ELSE n + 1
          /\ cbc_i' = IF over THEN i - 1 ELSE i
          /\ cbc_pc' = IF ~over THEN "for n"
                       ELSE IF i - 1 < 0 THEN "restore" ELSE "for i"
    /\ UNCHANGED <<cbc_in, cbc_cblocks, cbc_p, cbc_prev, cbc_ret, cbcOthers>>

\* the end of decrypt_cbc_last_blk_padding_attack and of the loop body
CbcLastBlkEnd ==
    /\ cbc_pc = "restore"
    /\ cbc_p' = Append(cbc_p, XorZip(cbc_x, cbc_heap[cbc_prev]))
    /\ cbc_cblocks' = DropLastN(SetPenultimate(cbc_cblocks, cbc_prev), 1)
    /\ cbc_pc' = "while"
    /\ UNCHANGED <<cbc_in, cbc_prev, cbc_heap, cbc_x, cbc_i, cbc_n, cbc_ret, cbcOthers>>

\* p.reverse(); return B('').join(p)
CbcReturn ==
    /\ cbc_pc = "while"
    /\ Len(cbc_cblocks) <= 1
    /\ cbc_ret' = Ok(Concat([k \in DOMAIN cbc_p |-> cbc_p[Len(cbc_p) - k + 1]]))
    /\ cbc_pc' = "done"
    /\ UNCHANGED <<cbc_in, cbc_cblocks, cbc_p, cbc_prev, cbc_heap, cbc_x, cbc_i, cbc_n,
                   cbcOthers>>

CbcNext ==
    \/ CbcAttack
    \/ CbcLastBlkBegin
    \/ CbcForge
    \/ CbcGuess
    \/ CbcLastBlkEnd
    \/ CbcReturn

\* ----------------------------- attacks/block_ciphers.py: decrypt_ecb_tail
\* SequenceStatsMixin.has_duplicates: are two items, distance items apart,
\* the same?
SequenceStatsMixin_has_duplicates(items, distance) ==
    \E idx \in 1..(Len(items) - distance - 1) : items[idx] = items[idx + distance + 1]

\* the encryption oracle of the victim: ECB under the key of
\* prefix + p + secret, block by block.  With padding "none" a trailing
\* partial block is enciphered as it is; with "pkcs#7" the message is padded
\* first, as a block cipher library does.
EcbOracle(in, p) ==
    LET m == in.prefix \o p \o in.secret
        padded == IF in.padding = "pkcs#7"
                  THEN SequenceMixin_pad(m, in.block_size, "pkcs#7").val
                  ELSE m
        blocks == NblocksView_iter(padded, in.block_size)
    IN Concat([k \in DOMAIN blocks |-> ToyEncryptBlock(in.key, blocks[k])])

\* the filler byte "A"
Filler == 65

\* limit=None; a limit that is given is <<limit>>
NoLimit == <<>>

\* the condition of the while loop
EcbGoesOn ==
    /\ ~ecb_eof
    /\ IF ecb_in.limit # NoLimit /\ ecb_in.limit[1] # 0
       THEN ecb_i < ecb_in.limit[1] ELSE TRUE

\* the inputs of the attack
EcbKeys == {165}
EcbSecretBytes == {1, 66}
EcbSecrets == SeqsOf(EcbSecretBytes, 0, 2 * BlockSize)
EcbPrefixes == SeqsOf({66}, 0, BlockSize - 1)
EcbLimits == {NoLimit, <<0>>, <<MaxItems>>}
EcbPaddings == {"none", "pkcs#7"}

EcbInit ==
    /\ \E key \in EcbKeys, prefix \in EcbPrefixes, secret \in EcbSecrets,
          limit \in EcbLimits, padding \in EcbPaddings :
          ecb_in = [key |-> key, prefix |-> prefix, secret |-> secret,
                    padding |-> padding, block_size |-> BlockSize,
                    alignment |-> (BlockSize - (Len(prefix) % BlockSize)) % BlockSize,
                    limit |-> limit]
    /\ ecb_pc = "new"
    /\ ecb_test_block = <<>>
    /\ ecb_align_target_block = <<>>
    /\ ecb_distance = 0
    /\ ecb_decrypted_bytes = <<>>
    /\ ecb_i = 0
    /\ ecb_eof = FALSE
    /\ ecb_b = 0
    /\ ecb_calls = 0
    /\ ecb_ret = None

EcbIdle ==
    /\ ecb_in = <<>>
    /\ ecb_pc = "idle"
    /\ ecb_test_block = <<>>
    /\ ecb_align_target_block = <<>>
    /\ ecb_distance = 0
    /\ ecb_decrypted_bytes = <<>>
    /\ ecb_i = 0
    /\ ecb_eof = FALSE
    /\ ecb_b = 0
    /\ ecb_calls = 0
    /\ ecb_ret = None

\* decrypt_ecb_tail, up to its loop
EcbStart ==
    /\ ecb_pc = "new"
    /\ ecb_test_block' = Repeat(Filler, ecb_in.block_size - 1)
    /\ ecb_align_target_block' = Repeat(Filler, ecb_in.block_size - 1)
    /\ ecb_distance' = 0
    /\ ecb_decrypted_bytes' = <<>>
    /\ ecb_i' = 0
    /\ ecb_eof' = FALSE
    /\ ecb_pc' = "while"
    /\ UNCHANGED <<ecb_in, ecb_b, ecb_calls, ecb_ret, ecbOthers>>

\* while not eof and (i < limit if limit else True): a round begins
EcbRound ==
    /\ ecb_pc = "while"
    /\ EcbGoesOn
    /\ ecb_i' = ecb_i + 1
    /\ ecb_eof' = TRUE
    /\ ecb_b' = 0
    /\ ecb_pc' = "for b"
    /\ UNCHANGED <<ecb_in, ecb_test_block, ecb_align_target_block, ecb_distance,
                   ecb_decrypted_bytes, ecb_calls, ecb_ret, ecbOthers>>

\* for b in range(256): one guess, with its call of the oracle
EcbProbe ==
    /\ ecb_pc = "for b"
    /\ LET b == <<ecb_b>>
           tmp == Repeat(Filler, ecb_in.alignment) \o ecb_test_block \o b
                      \o ecb_align_target_block
           c == EcbOracle(ecb_in, tmp)
           hit == SequenceStatsMixin_has_duplicates(
                      NblocksView_iter(c, ecb_in.block_size), ecb_distance)
       IN /\ ecb_calls' = ecb_calls + 1
          /\ IF hit
             THEN /\ ecb_eof' = FALSE
                  /\ ecb_decrypted_bytes' = Append(ecb_decrypted_bytes, b)
                  /\ ecb_test_block' = SequenceMixin_lshift(ecb_test_block, b)
                  /\ IF Len(ecb_align_target_block) = 0
                     THEN /\ ecb_align_target_block' = Repeat(Filler, ecb_in.block_size - 1)
                          /\ ecb_distance' = ecb_distance + 1
                     ELSE /\ ecb_align_target_block' = DropLastN(ecb_align_target_block, 1)
                          /\ UNCHANGED ecb_distance
                  /\ ecb_pc' = "while"
                  /\ UNCHANGED ecb_b
             ELSE /\ ecb_b' = IF ecb_b + 1 = ByteRange THEN ecb_b ELSE ecb_b + 1
                  /\ ecb_pc' = IF ecb_b + 1 = ByteRange THEN "while" ELSE "for b"
                  /\ UNCHANGED <<ecb_eof, ecb_decrypted_bytes, ecb_test_block,
                                 ecb_align_target_block, ecb_distance>>
    /\ UNCHANGED <<ecb_in, ecb_i, ecb_ret, ecbOthers>>

\* return B(b''.join(decrypted_bytes))
EcbReturn ==
    /\ ecb_pc = "while"
    /\ ~EcbGoesOn
    /\ ecb_ret' = Ok(Concat(ecb_decrypted_bytes))
    /\ ecb_pc' = "done"
    /\ UNCHANGED <<ecb_in, ecb_test_block, ecb_align_target_block, ecb_distance,
                   ecb_decrypted_bytes, ecb_i, ecb_eof, ecb_b, ecb_calls, ecbOthers>>

EcbNext ==
    \/ EcbStart
    \/ EcbRound
    \/ EcbProbe
    \/ EcbReturn

\* ------------------------------------ attacks/prng.py: MT19937, clone_mt19937
\* A Python int that is never negative is the set of the positions of its one
\* bits, so that no width is lost: x ^ y, x & y, x >> k and x << k are exact.
BXor(x, y) == (x \ y) \cup (y \ x)
BAnd(x, y) == x \cap y
RShift(x, k) == {p - k : p \in {q \in x : q >= k}}
LShift(x, k) == {p + k : p \in x}
Bit(x, p) == IF p \in x THEN 1 ELSE 0

\* the bits of a natural below 2^31, and of the 32-bit hexadecimal hhhhllll
WordOfNat(v) == {p \in 0..30 : (v \div (2 ^ p)) % 2 = 1}
Hex32(h, l) == WordOfNat(l) \cup LShift(WordOfNat(h), 16)
\* the parameters of MT19937.__init__
MT_w == 32
MT_n == 624
MT_m == 397
MT_r == 31
MT_a == Hex32(39176, 45279)      \* 0x9908b0df
MT_f == 1812433253
MT_W == Hex32(65535, 65535)      \* 0xffffffff
MT_u == 11
MT_d == Hex32(65535, 65535)      \* 0xffffffff
MT_s == 7
MT_b == Hex32(40236, 22144)      \* 0x9d2c5680
MT_t == 15
MT_c == Hex32(61382, 0)          \* 0xefc60000
MT_l == 18
lower_mask == 0..(MT_r - 1)
upper_mask == MT_W \ lower_mask

\* (f * x + i) & W for x below 2^32, by the schoolbook product of the bytes
MulAddW(x, i) ==
    LET byte(y, j) == LET t(p) == Bit(y, 8 * j + p) * (2 ^ p)
                      IN t(0) + t(1) + t(2) + t(3) + t(4) + t(5) + t(6) + t(7)
        fb(j) == (MT_f \div (ByteRange ^ j)) % ByteRange
        xb(j) == byte(x, j)
        c0 == fb(0) * xb(0) + i
        c1 == fb(0) * xb(1) + fb(1) * xb(0) + (c0 \div ByteRange)
        c2 == fb(0) * xb(2) + fb(1) * xb(1) + fb(2) * xb(0) + (c1 \div ByteRange)
        c3 == fb(0) * xb(3) + fb(1) * xb(2) + fb(2) * xb(1) + fb(3) * xb(0)
                  + (c2 \div ByteRange)
    IN WordOfNat(c0 % ByteRange) \cup LShift(WordOfNat(c1 % ByteRange), 8)
           \cup LShift(WordOfNat(c2 % ByteRange), 16)
           \cup LShift(WordOfNat(c3 % ByteRange), 24)

\* MT.append((f * (MT[i - 1] ^ (MT[i - 1] >> (w - 2))) + i) & W)
MT19937_seed_next(MT, i) ==
    Append(MT, MulAddW(BXor(MT[i], RShift(MT[i], MT_w - 2)), i))

\* one turn of the loop of twist(); MT[i] of the code is MT[i + 1] here
MT19937_twist_step(MT, i) ==
    LET x == BAnd(MT[i + 1], upper_mask) \cup BAnd(MT[((i + 1) % MT_n) + 1], lower_mask)
        xA == IF 0 \in x THEN BXor(RShift(x, 1), MT_a) ELSE RShift(x, 1)
        new == BXor(MT[((i + MT_m) % MT_n) + 1], xA)
    IN [j \in 1..Len(MT) |-> IF j = i + 1 THEN new ELSE MT[j]]

\* the tempering of extract_number
MT19937_temper(y0) ==
    LET y1 == BXor(y0, BAnd(RShift(y0, MT_u), MT_d))
        y2 == BXor(y1, BAnd(LShift(y1, MT_s), MT_b))
        y3 == BXor(y2, BAnd(LShift(y2, MT_t), MT_c))
        y4 == BXor(y3, RShift(y3, MT_l))
    IN BAnd(y4, MT_W)

RECURSIVE InvRightLoop(_, _, _, _, _)
InvRightLoop(v, k, mask, g, i) ==
    IF i < 32 THEN InvRightLoop(v, k, mask, BXor(v, BAnd(RShift(g, k), mask)), i + k)
    ELSE g
inv_right_shift(v, k, mask) == InvRightLoop(v, k, mask, {}, 0)

RECURSIVE InvLeftLoop(_, _, _, _, _)
InvLeftLoop(v, k, mask, g, i) ==
    IF i < 32 THEN InvLeftLoop(v, k, mask, BXor(v, BAnd(LShift(g, k), mask)), i + k)
    ELSE g
inv_left_shift(v, k, mask) == InvLeftLoop(v, k, mask, {}, 0)

\* the body of the loop of clone_mt19937: the tempering undone
Untemper(y) ==
    inv_right_shift(
        inv_left_shift(
            inv_left_shift(
                inv_right_shift(y, MT_l, MT_W),
                MT_t, MT_c),
            MT_s, MT_b),
        MT_u, MT_d)

\* n of clone_mt19937
Clone_n == 624

\* clone_mt19937(out): the state and the index given to the new generator
clone_mt19937(out) ==
    IF Len(out) < Clone_n THEN Raise("ValueError")
    ELSE LET state == [k \in 1..Len(out) |-> Untemper(out[k])]
         IN Ok([MT |-> Slice(state, 0, Clone_n), index |-> Clone_n])

\* how many numbers are drawn after the cloning
MaxDraws == 2

\* the seeds of the original generator and how many outputs the attacker sees
MtSeeds == {0, 5489}
MtSeen == {MaxLen, MT_n, MT_n + 1}

MtInit ==
    /\ \E seed \in MtSeeds, N \in MtSeen : mt_in = [seed |-> seed, N |-> N]
    /\ mt_pc = "seed"
    /\ mt_who = "g"
    /\ mt_g_MT = <<WordOfNat(mt_in.seed)>>
    /\ mt_g_index = MT_n + 1
    /\ mt_i = 1
    /\ mt_out = <<>>
    /\ mt_g_next = <<>>
    /\ mt_c_MT = <<>>
    /\ mt_c_index = 0
    /\ mt_c_next = <<>>
    /\ mt_res = None

MtIdle ==
    /\ mt_in = <<>>
    /\ mt_pc = "idle"
    /\ mt_who = "g"
    /\ mt_g_MT = <<>>
    /\ mt_g_index = 0
    /\ mt_i = 0
    /\ mt_out = <<>>
    /\ mt_g_next = <<>>
    /\ mt_c_MT = <<>>
    /\ mt_c_index = 0
    /\ mt_c_next = <<>>
    /\ mt_res = None

\* MT19937.__init__: for i in range(1, n), one turn
MtSeedStep ==
    /\ mt_pc = "seed"
    /\ mt_g_MT' = MT19937_seed_next(mt_g_MT, mt_i)
    /\ mt_i' = mt_i + 1
    /\ mt_pc' = IF mt_i + 1 = MT_n THEN "draw" ELSE "seed"
    /\ UNCHANGED <<mt_in, mt_who, mt_g_index, mt_out, mt_g_next, mt_c_MT,
                   mt_c_index, mt_c_next, mt_res, mtOthers>>

\* extract_number: next() on the original generator or on the clone
MtDraw ==
    /\ mt_pc = "draw"
    /\ LET MT == IF mt_who = "g" THEN mt_g_MT ELSE mt_c_MT
           index == IF mt_who = "g" THEN mt_g_index ELSE mt_c_index
           y == MT19937_temper(MT[index + 1])
       IN IF index >= MT_n
          THEN /\ mt_pc' = "twist"
               /\ mt_i' = 0
               /\ UNCHANGED <<mt_who, mt_g_index, mt_c_index, mt_out, mt_g_next,
                              mt_c_next>>
          ELSE /\ mt_i' = mt_i
               /\ IF mt_who = "g"
                  THEN /\ mt_g_index' = index + 1
                       /\ UNCHANGED <<mt_c_index, mt_c_next>>
                       /\ IF Len(mt_out) < mt_in.N
                          THEN /\ mt_out' = Append(mt_out, y)
                               /\ mt_pc' = IF Len(mt_out) + 1 = mt_in.N
                                           THEN "clone" ELSE "draw"
                               /\ UNCHANGED <<mt_g_next, mt_who>>
                          ELSE /\ mt_g_next' = Append(mt_g_next, y)
                               /\ mt_who' = IF Len(mt_g_next) + 1 = MaxDraws
                                            THEN "c" ELSE "g"
                               /\ UNCHANGED <<mt_out, mt_pc>>
                  ELSE /\ mt_c_index' = index + 1
                       /\ mt_c_next' = Append(mt_c_next, y)
                       /\ mt_pc' = IF Len(mt_c_next) + 1 = MaxDraws
                                   THEN "done" ELSE "draw"
                       /\ UNCHANGED <<mt_g_index, mt_out, mt_g_next, mt_who>>
    /\ UNCHANGED <<mt_in, mt_g_MT, mt_c_MT, mt_res, mtOthers>>

\* twist(): for i in range(n), one turn; after the last, self.index = 0
MtTwistStep ==
    /\ mt_pc = "twist"
    /\ IF mt_who = "g"
       THEN /\ mt_g_MT' = MT19937_twist_step(mt_g_MT, mt_i)
            /\ mt_g_index' = IF mt_i + 1 = MT_n THEN 0 ELSE mt_g_index
            /\ UNCHANGED <<mt_c_MT, mt_c_index>>
       ELSE /\ mt_c_MT' = MT19937_twist_step(mt_c_MT, mt_i)
            /\ mt_c_index' = IF mt_i + 1 = MT_n THEN 0 ELSE mt_c_index
            /\ UNCHANGED <<mt_g_MT, mt_g_index>>
    /\ mt_i' = mt_i + 1
    /\ mt_pc' = IF mt_i + 1 = MT_n THEN "draw" ELSE "twist"
    /\ UNCHANGED <<mt_in, mt_who, mt_out, mt_g_next, mt_c_next, mt_res, mtOthers>>

\* g = clone_mt19937(out): MT19937(0), then reset_state(state[:n], index=n)
MtClone ==
    /\ mt_pc = "clone"
    /\ LET r == clone_mt19937(mt_out)
       IN IF r.ok
          THEN /\ mt_c_MT' = r.val.MT
               /\ mt_c_index' = r.val.index
               /\ mt_res' = None
               /\ mt_pc' = "draw"
          ELSE /\ mt_res' = Raise(r.err)
               /\ mt_pc' = "done"
               /\ UNCHANGED <<mt_c_MT, mt_c_index>>
    /\ UNCHANGED <<mt_in, mt_who, mt_g_MT, mt_g_index, mt_i, mt_out, mt_g_next,
                   mt_c_next, mtOthers>>

MtNext ==
    \/ MtSeedStep
    \/ MtDraw
    \/ MtTwistStep
    \/ MtClone

\* ----------------------------------------- metrics/kasiski.py: kasiski_test
\* a < b on byte strings
RECURSIVE BytesLess(_, _)
BytesLess(a, b) ==
    IF b = <<>> THEN FALSE
    ELSE IF a = <<>> THEN TRUE
    ELSE IF Head(a) # Head(b) THEN Head(a) < Head(b)
    ELSE BytesLess(Tail(a), Tail(b))

\* sorted(d.items()) for a dict d from n-grams to positions: by n-gram
RECURSIVE SortedByNgram(_)
SortedByNgram(items) ==
    IF items = <<>> THEN <<>>
    ELSE LET e == Head(items)
             rest == SortedByNgram(Tail(items))
         IN SelectSeq(rest, LAMBDA x : BytesLess(x[1], e[1])) \o <<e>>
                \o SelectSeq(rest, LAMBDA x : ~BytesLess(x[1], e[1]))

\* as_3ngram_repeated_positions: the 3-grams found at 2 or more positions, each
\* with its positions, sorted
as_3ngram_repeated_positions(s) ==
    IF Len(s) < 3 THEN Raise("ValueError")        \* s.ngrams(3)
    ELSE LET ngrams == NgramsView_iter(s, 3)
             first == SelectSeq([i \in DOMAIN ngrams |-> i],
                                LAMBDA i : \A k \in 1..(i - 1) : ngrams[k] # ngrams[i])
             pos_by_ngram == [n \in DOMAIN first |->
                 <<ngrams[first[n]],
                   SelectSeq([i \in DOMAIN ngrams |-> i - 1],
                             LAMBDA ix : ngrams[ix + 1] = ngrams[first[n]])>>]
             tmp == SelectSeq(pos_by_ngram, LAMBDA e : Len(e[2]) >= 2)
         IN Ok(SortedByNgram(tmp))

\* ordered_positions_intersections: the numbers two ordered lists share
ordered_positions_intersections(a, b) ==
    SelectSeq(a, LAMBDA x : \E k \in DOMAIN b : b[k] = x)

\* bisect_left(ngram_pos_list, (first, [])) on a sorted list: the index, from
\* 0, of the first entry that is not below (first, [])
BisectLeft(ngram_pos_list, first) ==
    Cardinality({k \in DOMAIN ngram_pos_list : BytesLess(ngram_pos_list[k][1], first)})

\* candidate[0].startswith(prefix)
StartsWith(x, prefix) == Len(x) >= Len(prefix) /\ SubSeq(x, 1, Len(prefix)) = prefix

\* the while loop of merge_overlaping for one target, from the candidate ix
\* on: what it appends to res
RECURSIVE MergeCandidates(_, _, _)
MergeCandidates(ngram_pos_list, target, ix) ==
    IF ~(ix < Len(ngram_pos_list)) THEN <<>>
    ELSE LET candidate == ngram_pos_list[ix + 1]
             prefix == Tail(target[1])
             tpositions_plus_1 == [k \in DOMAIN target[2] |-> target[2][k] + 1]
             shared_positions ==
                 ordered_positions_intersections(tpositions_plus_1, candidate[2])
         IN IF ~StartsWith(candidate[1], prefix) THEN <<>>
            ELSE IF Len(shared_positions) <= 1 THEN <<>>
            ELSE << <<Append(target[1], candidate[1][Len(candidate[1])]),
                      [k \in DOMAIN shared_positions |-> shared_positions[k] - 1]>> >>
                 \o MergeCandidates(ngram_pos_list, target, ix + 1)

\* merge_overlaping: the repeated (N+1)-grams from the repeated N-grams
RECURSIVE MergeFrom(_, _)
MergeFrom(ngram_pos_list, t) ==
    IF t > Len(ngram_pos_list) THEN <<>>
    ELSE LET target == ngram_pos_list[t]
             first == Append(Tail(target[1]), 0)
         IN MergeCandidates(ngram_pos_list, target, BisectLeft(ngram_pos_list, first))
            \o MergeFrom(ngram_pos_list, t + 1)
merge_overlaping(ngram_pos_list) == MergeFrom(ngram_pos_list, 1)

\* a mutant of deltas_from_positions: the positions after the first, not their
\* differences
RECURSIVE deltas_from_positions_abs(_)
deltas_from_positions_abs(positions) ==
    IF Len(positions) < 2 THEN <<>>
    ELSE Tail(positions) \o deltas_from_positions_abs(Tail(positions))

\* deltas_from_positions: positions[j] - positions[i] for every i < j
RECURSIVE deltas_from_positions(_)
deltas_from_positions(positions) ==
    IF Len(positions) < 2 THEN <<>>
    ELSE [k \in 1..(Len(positions) - 1) |-> positions[k + 1] - positions[1]]
         \o deltas_from_positions(Tail(positions))

\* the body of the loop of kasiski_test: delta_stats, the histogram of the
\* deltas of every n-gram of l
RECURSIVE AllDeltas(_)
AllDeltas(l) ==
    IF l = <<>> THEN <<>> ELSE deltas_from_positions(Head(l)[2]) \o AllDeltas(Tail(l))
DeltaStats(l) == Counter(AllDeltas(l))

\* the byte strings kasiski_test is given
KsMaxLen == 8
KsBytes == {65, 66, 67}
KsStrings == SeqsOf(KsBytes, 0, KsMaxLen)

KsInit ==
    /\ ks_s \in KsStrings
    /\ ks_pc = "new"
    /\ ks_l = <<>>
    /\ ks_res = Ok(<<>>)

KsIdle ==
    /\ ks_s = <<>>
    /\ ks_pc = "idle"
    /\ ks_l = <<>>
    /\ ks_res = Ok(<<>>)

\* kasiski_test: res = []; l = as_3ngram_repeated_positions(s)
KsStart ==
    /\ ks_pc = "new"
    /\ LET r == as_3ngram_repeated_positions(ks_s)
       IN IF r.ok
          THEN /\ ks_l' = r.val
               /\ ks_pc' = "while"
               /\ UNCHANGED ks_res
          ELSE /\ ks_res' = r
               /\ ks_pc' = "done"
               /\ UNCHANGED ks_l
    /\ UNCHANGED <<ks_s, ksOthers>>

\* while l: res.append(delta_stats); l = merge_overlaping(l)
KsRound ==
    /\ ks_pc = "while"
    /\ ks_l # <<>>
    /\ ks_res' = Ok(Append(ks_res.val, DeltaStats(ks_l)))
    /\ ks_l' = merge_overlaping(ks_l)
    /\ UNCHANGED <<ks_s, ks_pc, ksOthers>>

\* return res
KsReturn ==
    /\ ks_pc = "while"
    /\ ks_l = <<>>
    /\ ks_pc' = "done"
    /\ UNCHANGED <<ks_s, ks_l, ks_res, ksOthers>>

KsNext ==
    \/ KsStart
    \/ KsRound
    \/ KsReturn

\* ------------------------------------- DistributionSummary (stats/distribution_summary.py)

\* _T: a tuple (v, g, d) of the summary
T(v, g, d) == [v |-> v, g |-> g, d |-> d]

\* DistributionSummary.__init__ (0 < epsilon < 1 is a precondition of the inputs)
DistributionSummary(epsilon, max_buffer_len) ==
    [epsilon |-> epsilon, max_buffer_len |-> max_buffer_len,
     buffered |-> max_buffer_len > 1, n |-> 0, buffer |-> <<>>, summary |-> <<>>]

\* the object with some of its attributes assigned
WithState(self, n, buffer, summary) ==
    [epsilon |-> self.epsilon, max_buffer_len |-> self.max_buffer_len,
     buffered |-> self.buffered, n |-> n, buffer |-> buffer, summary |-> summary]

\* what a method leaves: the object, and whether an assert of it failed
Left(self) == [self |-> self, ok |-> TRUE]
AssertFailed(self) == [self |-> self, ok |-> FALSE]

\* sorted(observations)
RECURSIVE SortedInts(_)
SortedInts(s) ==
    IF s = <<>> THEN <<>>
    ELSE LET e == Head(s)
             rest == SortedInts(Tail(s))
         IN SelectSeq(rest, LAMBDA x : x < e) \o <<e>> \o SelectSeq(rest, LAMBDA x : x >= e)

ReverseSeq(s) == [k \in 1..Len(s) |-> s[Len(s) + 1 - k]]

RECURSIVE SumG(_)
SumG(summary) == IF summary = <<>> THEN 0 ELSE Head(summary).g + SumG(Tail(summary))

\* _max_error: floor(epsilon * n)
DistributionSummary_max_error(self) == (self.epsilon[1] * self.n) \div self.epsilon[2]

\* _should_flush
DistributionSummary_should_flush(self) ==
    \/ Len(self.buffer) > Len(self.summary)
    \/ Len(self.buffer) >= self.max_buffer_len

\* _compute_d_for_new_observation; its assert is AppendChecked's
DistributionSummary_compute_d_for_new_observation(new_reversed_summary, vo, is_extreme) ==
    IF is_extreme THEN 0
    ELSE LET tlast == new_reversed_summary[Len(new_reversed_summary)]
         IN tlast.g + tlast.d - 1

\* a mutant of _append_tuple: the tuple is merged into the last one whatever
\* gap that leaves
DistributionSummary_append_tuple_always(self, new_reversed_summary, tnew, allow_delete) ==
    IF new_reversed_summary = <<>> \/ ~allow_delete
    THEN Append(new_reversed_summary, tnew)
    ELSE LET len == Len(new_reversed_summary)
             tlast == new_reversed_summary[len]
         IN [k \in 1..len |->
                IF k = len THEN T(tlast.v, tlast.g + tnew.g, tlast.d)
                ELSE new_reversed_summary[k]]

\* _append_tuple: new_reversed_summary after it
DistributionSummary_append_tuple(self, new_reversed_summary, tnew, allow_delete) ==
    IF new_reversed_summary = <<>> \/ ~allow_delete
    THEN Append(new_reversed_summary, tnew)
    ELSE LET err == 2 * DistributionSummary_max_error(self)
             len == Len(new_reversed_summary)
             tlast == new_reversed_summary[len]
         IN IF tnew.g + tnew.d + tlast.g + tlast.d - 1 <= err /\ allow_delete
            THEN [k \in 1..len |->
                     IF k = len THEN T(tlast.v, tlast.g + tnew.g, tlast.d)
                     ELSE new_reversed_summary[k]]
            ELSE Append(new_reversed_summary, tnew)

\* the asserts of _compute_d_for_new_observation and of _append_tuple: the
\* tuple to append is not above the last one appended
AppendAsserts(new_reversed_summary, v, is_extreme, allow_delete) ==
    LET tlast == new_reversed_summary[Len(new_reversed_summary)]
    IN /\ (~is_extreme => tlast.v >= v)
       /\ ((new_reversed_summary # <<>> /\ allow_delete) => tlast.v >= v)

\* the three loops of _add_and_compress; o and i count from 1, so the loops
\* run while they are above 0
RECURSIVE MergeLoops(_, _, _, _, _)
MergeLoops(self, observations, o, i, new_reversed_summary) ==
    IF o = 0 /\ i = 0 THEN [new |-> new_reversed_summary, ok |-> TRUE]
    ELSE LET is_the_minimum == IF o >= 1 /\ i >= 1 THEN o = 1 /\ i = 1
                               ELSE IF o >= 1 THEN o = 1 ELSE i = 1
             is_the_maximum == new_reversed_summary = <<>>
             is_extreme == is_the_minimum \/ is_the_maximum
             take_summary == IF o >= 1 /\ i >= 1
                             THEN self.summary[i].v > observations[o]
                             ELSE i >= 1
             tnew == IF take_summary THEN self.summary[i]
                     ELSE T(observations[o], 1,
                            DistributionSummary_compute_d_for_new_observation(
                                new_reversed_summary, observations[o], is_extreme))
         IN IF ~AppendAsserts(new_reversed_summary, tnew.v,
                              take_summary \/ is_extreme, ~is_the_minimum)
            THEN [new |-> new_reversed_summary, ok |-> FALSE]
            ELSE MergeLoops(self, observations,
                            IF take_summary THEN o ELSE o - 1,
                            IF take_summary THEN i - 1 ELSE i,
                            DistributionSummary_append_tuple(
                                self, new_reversed_summary, tnew, ~is_the_minimum))

\* the invariants _add_and_compress asserts under check_invariants
InvariantAsserts(self, min_value, max_value) ==
    /\ SumG(self.summary) = self.n
    /\ \A k \in 1..Len(self.summary) :
          self.summary[k].g + self.summary[k].d - 1 <= 2 * DistributionSummary_max_error(self)
    /\ self.summary # <<>>
    /\ self.summary[1].v = min_value
    /\ self.summary[Len(self.summary)].v = max_value

\* _add_and_compress, with check_invariants
DistributionSummary_add_and_compress(self, observations) ==
    LET sorted == SortedInts(observations)
        lows == (IF sorted = <<>> THEN {} ELSE {sorted[1]})
                \cup (IF self.summary = <<>> THEN {} ELSE {self.summary[1].v})
        highs == (IF sorted = <<>> THEN {} ELSE {sorted[Len(sorted)]})
                 \cup (IF self.summary = <<>> THEN {}
                       ELSE {self.summary[Len(self.summary)].v})
    IN IF sorted = <<>> /\ self.summary = <<>> THEN Left(self)
       ELSE LET counted == WithState(self, self.n + Len(sorted), self.buffer, self.summary)
                merged == MergeLoops(counted, sorted, Len(sorted), Len(self.summary), <<>>)
                after == WithState(self, counted.n, self.buffer, ReverseSeq(merged.new))
                min_value == CHOOSE x \in lows : \A y \in lows : x <= y
                max_value == CHOOSE x \in highs : \A y \in highs : x >= y
            IN IF merged.ok /\ InvariantAsserts(after, min_value, max_value)
               THEN Left(after)
               ELSE AssertFailed(after)

\* self._add_and_compress(self.buffer); self.buffer.clear()
AddBufferAndClear(self) ==
    LET r == DistributionSummary_add_and_compress(self, self.buffer)
    IN IF r.ok THEN Left(WithState(r.self, r.self.n, <<>>, r.self.summary)) ELSE r

\* add_observation
DistributionSummary_add_observation(self, value) ==
    LET appended == WithState(self, self.n, Append(self.buffer, value), self.summary)
    IN IF DistributionSummary_should_flush(appended)
       THEN AddBufferAndClear(appended)
       ELSE Left(appended)

\* for v in values: self.add_observation(v)
RECURSIVE AddEach(_, _)
AddEach(self, values) ==
    IF values = <<>> THEN Left(self)
    ELSE LET r == DistributionSummary_add_observation(self, Head(values))
         IN IF r.ok THEN AddEach(r.self, Tail(values)) ELSE r

\* while len(self.buffer) - i > n: the chunks of the buffer added; i counts
\* the observations taken, the object left has self.buffer = self.buffer[i:]
RECURSIVE ChunkLoop(_, _, _)
ChunkLoop(self, i, n) ==
    IF Len(self.buffer) - i > n
    THEN LET r == DistributionSummary_add_and_compress(
                      self, SubSeq(self.buffer, i + 1, i + n))
         IN IF r.ok THEN ChunkLoop(r.self, i + n, r.self.n) ELSE r
    ELSE LET left == WithState(self, self.n,
                               SubSeq(self.buffer, i + 1, Len(self.buffer)), self.summary)
         IN Left(left)

\* add_observations
DistributionSummary_add_observations(self, values) ==
    IF ~self.buffered THEN AddEach(self, values)
    ELSE LET extended == WithState(self, self.n, self.buffer \o values, self.summary)
         IN IF DistributionSummary_should_flush(extended)
            THEN LET expected_n == extended.n + Len(extended.buffer)
                     r == ChunkLoop(extended, 0, Max(extended.n, 2))
                 IN IF r.ok /\ r.self.n + Len(r.self.buffer) # expected_n
                    THEN AssertFailed(r.self)
                    ELSE r
            ELSE Left(extended)

\* _flush
DistributionSummary_flush(self) ==
    IF ~self.buffered \/ self.buffer = <<>> THEN Left(self)
    ELSE AddBufferAndClear(self)

\* observations_count
DistributionSummary_observations_count(self) == self.n + Len(self.buffer)

\* the loop of ranks for one rank r: the value of the first tuple whose
\* [rmin, rmax] lies within r +/- err
RECURSIVE RankScan(_, _, _, _, _)
RankScan(summary, r, err, i, prev_rmin) ==
    IF i > Len(summary) THEN Raise("AssertionError")
    ELSE LET rmin == prev_rmin + summary[i].g
             rmax == rmin + summary[i].d
         IN IF rmin >= r - err /\ rmax <= r + err
            THEN Ok(<<summary[i].v>>)
            ELSE RankScan(summary, r, err, i + 1, rmin)

\* what a query leaves: the object and what it returned, as a tuple, or raised
Answer(self, ret) == [self |-> self, ret |-> ret]

\* rank(r) = ranks([r])[0]
DistributionSummary_rank(self, r) ==
    IF ~(0 < r /\ r <= DistributionSummary_observations_count(self))
    THEN Answer(self, Raise("ValueError"))
    ELSE LET f == DistributionSummary_flush(self)
         IN IF ~f.ok THEN Answer(f.self, Raise("AssertionError"))
            ELSE Answer(f.self,
                        RankScan(f.self.summary, r, DistributionSummary_max_error(f.self), 1, 0))

\* math.ceil(q * n) for a quantile q = a/b
CeilOfProduct(q, n) == (q[1] * n + q[2] - 1) \div q[2]

\* quantile(q) = quantiles([q])[0]
DistributionSummary_quantile(self, q) ==
    IF ~(RLt(Zero, q) /\ RLe(q, One)) THEN Answer(self, Raise("ValueError"))
    ELSE DistributionSummary_rank(self, CeilOfProduct(q, self.n))

\* range
DistributionSummary_range(self) ==
    LET f == DistributionSummary_flush(self)
    IN IF ~f.ok THEN Answer(f.self, Raise("AssertionError"))
       ELSE IF f.self.summary = <<>> THEN Answer(f.self, Raise("IndexError"))
       ELSE Answer(f.self, Ok(<<f.self.summary[1].v, f.self.summary[Len(f.self.summary)].v>>))

\* max_error
DistributionSummary_max_error_query(self) ==
    LET f == DistributionSummary_flush(self)
    IN IF ~f.ok THEN Answer(f.self, Raise("AssertionError"))
       ELSE Answer(f.self, Ok(<<DistributionSummary_max_error(f.self)>>))

\* the summaries built, the observations they are given and the queries made
DsMaxObs == 7
DsMaxBatch == 2
DsSmallBuffer == 4
DsValues == 1..DsMaxObs
DsEpsilons == {<<1, 4>>, <<1, 2>>}
DsBufferLens == {0, DsSmallBuffer}
DsQuantiles == {<<1, 2>>, <<1, 1>>}

\* the observations seen with some more, kept in order
SeenWith(seen, values) == SortedInts(seen \o values)

\* the streams observed: any order of distinct values, and any values at all
\* while the stream is short
DsMaxRepeated == DsMaxBatch + 1
Repeats(seen) == Len(seen) - Cardinality({seen[k] : k \in 1..Len(seen)})
DsObservable(values) ==
    /\ Len(ds_seen) + Len(values) <= DsMaxObs
    /\ \/ Repeats(ds_seen \o values) = 0
       \/ Len(ds_seen) + Len(values) <= DsMaxRepeated

DsInit ==
    /\ \E e \in DsEpsilons, b \in DsBufferLens : ds_self = DistributionSummary(e, b)
    /\ ds_seen = <<>>
    /\ ds_pc = "ready"
    /\ ds_call = "new"
    /\ ds_arg = Zero
    /\ ds_res = None

DsIdle ==
    /\ ds_self = DistributionSummary(<<1, 2>>, 0)
    /\ ds_seen = <<>>
    /\ ds_pc = "idle"
    /\ ds_call = ""
    /\ ds_arg = Zero
    /\ ds_res = None

\* a call that adds observations: the object it leaves, and an AssertionError
\* if an assert of it failed
DsAdded(r, values, call) ==
    /\ ds_self' = r.self
    /\ ds_seen' = SeenWith(ds_seen, values)
    /\ ds_pc' = IF r.ok THEN "ready" ELSE "failed"
    /\ ds_res' = IF r.ok THEN None ELSE Raise("AssertionError")
    /\ ds_call' = call
    /\ ds_arg' = Zero
    /\ UNCHANGED dsOthers

DsAddObservation ==
    /\ ds_pc = "ready"
    /\ \E v \in DsValues :
          /\ DsObservable(<<v>>)
          /\ DsAdded(DistributionSummary_add_observation(ds_self, v), <<v>>, "add_observation")

DsAddObservations ==
    /\ ds_pc = "ready"
    /\ \E values \in SeqsOf(DsValues, 0, DsMaxBatch) :
          /\ DsObservable(values)
          /\ DsAdded(DistributionSummary_add_observations(ds_self, values), values,
                     "add_observations")

\* a query: what it returned, and the object it leaves
DsAnswered(a, call, arg) ==
    /\ ds_self' = a.self
    /\ ds_res' = a.ret
    /\ ds_pc' = "answered"
    /\ ds_call' = call
    /\ ds_arg' = arg
    /\ UNCHANGED <<ds_seen, dsOthers>>

DsRank ==
    /\ ds_pc = "ready"
    /\ \E r \in 0..(DsMaxObs + 1) :
          DsAnswered(DistributionSummary_rank(ds_self, r), "rank", <<r, 1>>)

DsQuantile ==
    /\ ds_pc = "ready"
    /\ \E q \in DsQuantiles :
          DsAnswered(DistributionSummary_quantile(ds_self, q), "quantile", q)

DsRange ==
    /\ ds_pc = "ready"
    /\ DsAnswered(DistributionSummary_range(ds_self), "range", Zero)

DsMaxError ==
    /\ ds_pc = "ready"
    /\ DsAnswered(DistributionSummary_max_error_query(ds_self), "max_error", Zero)

\* the summary as it is fed
DsAddNext ==
    \/ DsAddObservation
    \/ DsAddObservations

\* the summary as it is fed and queried
DsNext ==
    \/ DsAddObservation
    \/ DsAddObservations
    \/ DsRank
    \/ DsQuantile
    \/ DsRange
    \/ DsMaxError

\* ------------------------------------------------------------ IntSpace (space.py)

\* IntSpace.__init__ with a, b, step and an integer start
IntSpace(a, b, step, start) ==
    IF b < a THEN Raise("ValueError")
    ELSE IF step <= 0 THEN Raise("ValueError")
    ELSE IF start < a \/ start > b THEN Raise("ValueError")
    ELSE Ok([lo |-> a, hi |-> b, step |-> step, start |-> start])

\* range(first, stop, step): first, first + step, ... below stop
range_up(first, stop, step) ==
    IF first >= stop THEN <<>>
    ELSE [k \in 1..((stop - first + step - 1) \div step) |-> first + (k - 1) * step]

\* range(first, stop, -step): first, first - step, ... above stop
range_down(first, stop, step) ==
    IF first <= stop THEN <<>>
    ELSE [k \in 1..((first - stop + step - 1) \div step) |-> first - (k - 1) * step]

\* lower and higher as _space_generator first builds them
IntSpace_lower(self) == range_down(self.start - self.step, self.lo - 1, self.step)
IntSpace_higher(self) == range_up(self.start, self.hi + 1, self.step)

\* hi_start = start + cnt * step
IntSpace_hi_start(self, cnt) == self.start + cnt * self.step

\* a mutant of lo_start: the lower numbers restart one step too high
IntSpace_lo_start_again(self, cnt) == self.start - cnt * self.step

\* lo_start = start - (cnt + 1) * step
IntSpace_lo_start(self, cnt) == self.start - (cnt + 1) * self.step

\* the spaces iterated
SpMaxAbs == 4
SpMaxStep == 3
SpEnds == (0 - SpMaxAbs)..SpMaxAbs
SpSteps == 0..SpMaxStep

SpInit ==
    /\ sp_in \in [a : SpEnds, b : SpEnds, step : SpSteps, start : SpEnds]
    /\ sp_self = None
    /\ sp_pc = "new"
    /\ sp_cnt = 0
    /\ sp_rest = <<>>
    /\ sp_out = <<>>

SpIdle ==
    /\ sp_in = <<>>
    /\ sp_self = None
    /\ sp_pc = "idle"
    /\ sp_cnt = 0
    /\ sp_rest = <<>>
    /\ sp_out = <<>>

\* IntSpace(a, b, step=step, start=start), and iter() of it when it is built
SpNew ==
    /\ sp_pc = "new"
    /\ sp_self' = IntSpace(sp_in.a, sp_in.b, sp_in.step, sp_in.start)
    /\ sp_pc' = IF sp_self'.ok THEN "zip" ELSE "raised"
    /\ UNCHANGED <<sp_in, sp_cnt, sp_rest, sp_out, spOthers>>

\* for h, l in zip(higher, lower): yield h; yield l; cnt += 1
SpZip ==
    /\ sp_pc = "zip"
    /\ sp_cnt < Len(IntSpace_higher(sp_self.val))
    /\ sp_cnt < Len(IntSpace_lower(sp_self.val))
    /\ sp_out' = sp_out \o <<IntSpace_higher(sp_self.val)[sp_cnt + 1],
                              IntSpace_lower(sp_self.val)[sp_cnt + 1]>>
    /\ sp_cnt' = sp_cnt + 1
    /\ UNCHANGED <<sp_in, sp_self, sp_pc, sp_rest, spOthers>>

\* the zip is exhausted: hi_start, lo_start and the branch taken with its assert
SpRemaining ==
    /\ sp_pc = "zip"
    /\ \/ sp_cnt >= Len(IntSpace_higher(sp_self.val))
       \/ sp_cnt >= Len(IntSpace_lower(sp_self.val))
    /\ LET self == sp_self.val
           hi_start == IntSpace_hi_start(self, sp_cnt)
           lo_start == IntSpace_lo_start(self, sp_cnt)
       IN IF hi_start <= self.hi
          THEN IF lo_start >= self.lo
               THEN sp_pc' = "failed" /\ sp_rest' = <<>>
               ELSE sp_pc' = "rest" /\ sp_rest' = range_up(hi_start, self.hi + 1, self.step)
          ELSE IF lo_start >= self.lo
          THEN sp_pc' = "rest" /\ sp_rest' = range_down(lo_start, self.lo - 1, self.step)
          ELSE sp_pc' = "rest" /\ sp_rest' = <<>>
    /\ UNCHANGED <<sp_in, sp_self, sp_cnt, sp_out, spOthers>>

\* for h in higher: yield h; or for l in lower: yield l
SpYieldRest ==
    /\ sp_pc = "rest"
    /\ sp_rest # <<>>
    /\ sp_out' = Append(sp_out, Head(sp_rest))
    /\ sp_rest' = Tail(sp_rest)
    /\ UNCHANGED <<sp_in, sp_self, sp_pc, sp_cnt, spOthers>>

\* the generator returns
SpStop ==
    /\ sp_pc = "rest"
    /\ sp_rest = <<>>
    /\ sp_pc' = "done"
    /\ UNCHANGED <<sp_in, sp_self, sp_cnt, sp_rest, sp_out, spOthers>>

SpNext ==
    \/ SpNew
    \/ SpZip
    \/ SpRemaining
    \/ SpYieldRest
    \/ SpStop

\* ------------------------------- attacks/prng.py: a tempering step and its inverse

\* y ^ ((y >> b) & m) and y ^ ((y << b) & m & 0xFFFFFFFF)
TemperRight(y, b, m) == BXor(y, BAnd(RShift(y, b), m))
TemperLeft(y, b, m) == BXor(y, BAnd(BAnd(LShift(y, b), m), MT_W))

\* a mutant of the round of inv_left_shift: the guess is shifted the other way
inv_left_shift_round_right(v, b, m, g) == BXor(v, BAnd(RShift(g, b), m))

\* the rounds of the loops: g = v ^ ((g >> b) & m) and g = v ^ ((g << b) & m)
inv_right_shift_round(v, b, m, g) == BXor(v, BAnd(RShift(g, b), m))
inv_left_shift_round(v, b, m, g) == BXor(v, BAnd(LShift(g, b), m))

\* the words tempered, the masks and the shift distances: words of few bits
\* at chosen positions, and dense ones
TmBits == {0, 1, 7, 15, 31}
TmDense == {MT_W, MT_b, MT_c, MT_a, Hex32(21845, 21845), Hex32(43690, 43690),
            WordOfNat(524889969), WordOfNat(65793)}
TmWords == (SUBSET TmBits) \cup TmDense
TmMasks == TmDense \cup {{}, TmBits, {7}, {31}, {0}}
TmShifts == 1..(MT_w - 1)

TmInit ==
    /\ tm_in \in [y : TmWords, m : TmMasks, b : TmShifts, left : BOOLEAN]
    /\ tm_pc = "new"
    /\ tm_v = {}
    /\ tm_g = {}
    /\ tm_i = 0

TmIdle ==
    /\ tm_in = <<>>
    /\ tm_pc = "idle"
    /\ tm_v = {}
    /\ tm_g = {}
    /\ tm_i = 0

\* v = y ^ ((y >> b) & m); inv_right_shift(v, b, m) begins: g = 0; i = 0
TmTemperRight ==
    /\ tm_pc = "new"
    /\ ~tm_in.left
    /\ tm_v' = TemperRight(tm_in.y, tm_in.b, tm_in.m)
    /\ tm_pc' = "while"
    /\ UNCHANGED <<tm_in, tm_g, tm_i, tmOthers>>

\* v = y ^ ((y << b) & m & 0xFFFFFFFF); inv_left_shift(v, b, m) begins
TmTemperLeft ==
    /\ tm_pc = "new"
    /\ tm_in.left
    /\ tm_v' = TemperLeft(tm_in.y, tm_in.b, tm_in.m)
    /\ tm_pc' = "while"
    /\ UNCHANGED <<tm_in, tm_g, tm_i, tmOthers>>

\* inv_right_shift, while i < 32: g = v ^ ((g >> b) & m); i += b
TmRoundRight ==
    /\ tm_pc = "while"
    /\ ~tm_in.left
    /\ tm_i < 32
    /\ tm_g' = inv_right_shift_round(tm_v, tm_in.b, tm_in.m, tm_g)
    /\ tm_i' = tm_i + tm_in.b
    /\ UNCHANGED <<tm_in, tm_pc, tm_v, tmOthers>>

\* inv_left_shift, while i < 32: g = v ^ ((g << b) & m); i += b
TmRoundLeft ==
    /\ tm_pc = "while"
    /\ tm_in.left
    /\ tm_i < 32
    /\ tm_g' = inv_left_shift_round(tm_v, tm_in.b, tm_in.m, tm_g)
    /\ tm_i' = tm_i + tm_in.b
    /\ UNCHANGED <<tm_in, tm_pc, tm_v, tmOthers>>

\* return g
TmReturn ==
    /\ tm_pc = "while"
    /\ tm_i >= 32
    /\ tm_pc' = "done"
    /\ UNCHANGED <<tm_in, tm_v, tm_g, tm_i, tmOthers>>

TmNext ==
    \/ TmTemperRight
    \/ TmTemperLeft
    \/ TmRoundRight
    \/ TmRoundLeft
    \/ TmReturn

\* ------------------------------------------- stats/kasiski.py: positions and ids

\* id_of_ngram.setdefault(key, len(id_of_ngram)) over a list of keys, the dict
\* starting as {0: 0}: a key gets 1 + the number of distinct keys before its
\* first occurrence; a position marked for deletion (no key, <<>>) gets id 0
IdsBySetdefault(keys) ==
    [k \in DOMAIN keys |->
        IF keys[k] = <<>> THEN 0
        ELSE LET first == CHOOSE j \in 1..k :
                              /\ keys[j] = keys[k]
                              /\ \A i \in 1..(j - 1) : keys[i] # keys[k]
             IN Cardinality({keys[i] : i \in 1..first} \ {<<>>})]

\* ngram_cnt_by_id[id] > 1, id 0 having a count of 0 always
CountAbove1(ids, id) == id # 0 /\ Cardinality({k \in DOMAIN ids : ids[k] = id}) > 1

\* as_ngram_repeated_positions(s, n): the (position, id) pairs of the n-grams
\* that are not unique
as_ngram_repeated_positions(s, n) ==
    IF n <= 0 \/ Len(s) < n THEN Raise("ValueError")        \* s.ngrams(n)
    ELSE LET ids == IdsBySetdefault(NgramsView_iter(s, n))
             pos_sorted == [k \in DOMAIN ids |-> <<k - 1, ids[k]>>]
         IN Ok(SelectSeq(pos_sorted, LAMBDA e : CountAbove1(ids, e[2])))

\* merge_overlaping of stats/kasiski.py
stats_merge_overlaping(pos_sorted) ==
    IF pos_sorted = <<>> THEN Raise("IndexError")           \* pos_sorted[-1] = (0, 0)
    ELSE LET L == Len(pos_sorted)
             keys == [ix \in 1..L |->
                         IF ix = L \/ pos_sorted[ix][1] + 1 # pos_sorted[ix + 1][1] THEN <<>>
                         ELSE <<pos_sorted[ix][2], pos_sorted[ix + 1][2]>>]
             ids == IdsBySetdefault(keys)
             marked == [ix \in 1..L |->
                           IF keys[ix] = <<>> THEN <<0, 0>> ELSE <<pos_sorted[ix][1], ids[ix]>>]
         IN Ok(SelectSeq(marked, LAMBDA e : CountAbove1(ids, e[2])))

\* the n-gram lengths the positions start from
KpMaxN == 3

KpInit ==
    /\ kp_s \in KsStrings
    /\ kp_n \in 1..KpMaxN
    /\ kp_pc = "new"
    /\ kp_pos = <<>>
    /\ kp_res = None

KpIdle ==
    /\ kp_s = <<>>
    /\ kp_n = 0
    /\ kp_pc = "idle"
    /\ kp_pos = <<>>
    /\ kp_res = None

\* pos_sorted = as_ngram_repeated_positions(s, n)
KpPositions ==
    /\ kp_pc = "new"
    /\ kp_res' = as_ngram_repeated_positions(kp_s, kp_n)
    /\ kp_pc' = IF kp_res'.ok THEN "positions" ELSE "raised"
    /\ UNCHANGED <<kp_s, kp_n, kp_pos, kpOthers>>

\* pos_sorted = merge_overlaping(pos_sorted), the n-grams one byte longer
KpMerge ==
    /\ kp_pc \in {"positions", "merged"}
    /\ kp_n <= Len(kp_s)
    /\ kp_pos' = kp_res.val
    /\ kp_res' = stats_merge_overlaping(kp_res.val)
    /\ kp_n' = kp_n + 1
    /\ kp_pc' = IF kp_res'.ok THEN "merged" ELSE "raised merging"
    /\ UNCHANGED <<kp_s, kpOthers>>

KpNext ==
    \/ KpPositions
    \/ KpMerge

\* ---------------------------------------------------------- specifications
InitBytes == BsInit /\ FzIdle /\ BfIdle /\ FaIdle /\ JnIdle /\ CbcIdle /\ EcbIdle /\ MtIdle /\ KsIdle /\ DsIdle /\ SpIdle /\ TmIdle /\ KpIdle
SpecBytes == InitBytes /\ [][BsNext]_vars

InitFuzzy == FzInit /\ BsIdle /\ BfIdle /\ FaIdle /\ JnIdle /\ CbcIdle /\ EcbIdle /\ MtIdle /\ KsIdle /\ DsIdle /\ SpIdle /\ TmIdle /\ KpIdle
SpecFuzzy == InitFuzzy /\ [][FzNext]_vars

InitBruteForce == BfInit /\ BsIdle /\ FzIdle /\ FaIdle /\ JnIdle /\ CbcIdle /\ EcbIdle /\ MtIdle /\ KsIdle /\ DsIdle /\ SpIdle /\ TmIdle /\ KpIdle
SpecBruteForce == InitBruteForce /\ [][BfNext]_vars

InitFreqAttack == FaInit /\ BsIdle /\ FzIdle /\ BfIdle /\ JnIdle /\ CbcIdle /\ EcbIdle /\ MtIdle /\ KsIdle /\ DsIdle /\ SpIdle /\ TmIdle /\ KpIdle
SpecFreqAttack == InitFreqAttack /\ [][FaNext]_vars

InitJoin == JnInit /\ BsIdle /\ FzIdle /\ BfIdle /\ FaIdle /\ CbcIdle /\ EcbIdle /\ MtIdle /\ KsIdle /\ DsIdle /\ SpIdle /\ TmIdle /\ KpIdle
SpecJoin == InitJoin /\ [][JnNext]_vars

InitCbc == CbcInit /\ BsIdle /\ FzIdle /\ BfIdle /\ FaIdle /\ JnIdle /\ EcbIdle /\ MtIdle /\ KsIdle /\ DsIdle /\ SpIdle /\ TmIdle /\ KpIdle
SpecCbc == InitCbc /\ [][CbcNext]_vars

InitEcb == EcbInit /\ BsIdle /\ FzIdle /\ BfIdle /\ FaIdle /\ JnIdle /\ CbcIdle /\ MtIdle /\ KsIdle /\ DsIdle /\ SpIdle /\ TmIdle /\ KpIdle
SpecEcb == InitEcb /\ [][EcbNext]_vars

InitMt == MtInit /\ BsIdle /\ FzIdle /\ BfIdle /\ FaIdle /\ JnIdle /\ CbcIdle /\ EcbIdle /\ KsIdle /\ DsIdle /\ SpIdle /\ TmIdle /\ KpIdle
SpecMt == InitMt /\ [][MtNext]_vars

InitKasiski == KsInit /\ BsIdle /\ FzIdle /\ BfIdle /\ FaIdle /\ JnIdle /\ CbcIdle /\ EcbIdle /\ MtIdle /\ DsIdle /\ SpIdle /\ TmIdle /\ KpIdle
SpecKasiski == InitKasiski /\ [][KsNext]_vars

InitSummary == DsInit /\ BsIdle /\ FzIdle /\ BfIdle /\ FaIdle /\ JnIdle /\ CbcIdle /\ EcbIdle /\ MtIdle /\ KsIdle /\ SpIdle /\ TmIdle /\ KpIdle
SpecSummary == InitSummary /\ [][DsAddNext]_vars
SpecSummaryQueries == InitSummary /\ [][DsNext]_vars

InitSpace == SpInit /\ BsIdle /\ FzIdle /\ BfIdle /\ FaIdle /\ JnIdle /\ CbcIdle /\ EcbIdle /\ MtIdle /\ KsIdle /\ DsIdle /\ TmIdle /\ KpIdle
SpecSpace == InitSpace /\ [][SpNext]_vars

InitTemper == TmInit /\ BsIdle /\ FzIdle /\ BfIdle /\ FaIdle /\ JnIdle /\ CbcIdle /\ EcbIdle /\ MtIdle /\ KsIdle /\ DsIdle /\ SpIdle /\ KpIdle
SpecTemper == InitTemper /\ [][TmNext]_vars

InitPositions == KpInit /\ BsIdle /\ FzIdle /\ BfIdle /\ FaIdle /\ JnIdle /\ CbcIdle /\ EcbIdle /\ MtIdle /\ KsIdle /\ DsIdle /\ SpIdle /\ TmIdle
SpecPositions == InitPositions /\ [][KpNext]_vars

\* ------------------------------------------------------------------ claims

\* C1 (as claimed): for every key, IV and plaintext whose PKCS#7-padded form
\* spans at least two blocks, decrypt_cbc_padding_attack, given the IV and an
\* oracle that answers true exactly when the CBC decryption of its argument
\* ends in a valid PKCS#7 pad, returns the padded plaintext byte for byte.
C1_CbcAttackReturnsPaddedPlaintext ==
    (/\ cbc_pc = "done"
     /\ cbc_in.iv # None
     /\ Len(cbc_in.padded) >= 2 * cbc_in.bsize) =>
        cbc_ret = Ok(cbc_in.padded)

\* C2 (as claimed): for every key, every prefix that the alignment filler
\* completes to a whole number of blocks, and every secret of length 0, 1 or
\* more than one block, decrypt_ecb_tail called without a limit on the oracle
\* E(p) = ECB(key, prefix + p + secret) returns exactly the bytes of secret,
\* nothing missing and nothing extra.
C2_EcbTailReturnsSecret ==
    (/\ ecb_pc = "done"
     /\ ecb_in.limit = NoLimit
     /\ ecb_in.padding = "none") =>
        ecb_ret = Ok(ecb_in.secret)

\* C3 (as claimed): for any seed, when clone_mt19937 is given the first
\* N >= 624 consecutive outputs of an MT19937 generator, the k-th output drawn
\* from the clone equals the (N+k)-th output of the original generator, for
\* every k >= 1.
C3_CloneContinuesTheOriginal ==
    (/\ mt_pc = "done"
     /\ mt_in.N >= Clone_n) =>
        /\ mt_res = None
        /\ \A k \in 1..MaxDraws : mt_c_next[k] = mt_g_next[k]

\* C4 (as claimed): after any sequence of operations on a weighted candidate
\* set, every stored weight w satisfies min_membership < w <= 1.
C4_StoredWeightsAboveMin ==
    \A i \in DOMAIN fz.items :
        RLt(fz.min.v, fz.items[i][2]) /\ RLe(fz.items[i][2], One)

\* C5 (as claimed): for every byte sequence s, block size n >= 1 and scheme p
\* that pad accepts, s.pad(n, p).unpad(p) returns exactly s.
C5_PadUnpadRoundTrip ==
    bs_hist = <<"pad", "unpad">> => bs_res = Ok(bs_self)

\* C6: for byte sequences a and b of equal length (a ^ b) ^ b equals a, and
\* neither a nor b is changed by the operation.
C6_XorTwiceIsIdentity ==
    /\ bs_hist \in {<<"xor">>, <<"xor", "xor">>} =>
          /\ bs_self = bs_in[1]
          /\ bs_other = bs_in[2]
          /\ bs_res.ok <=> Len(bs_in[1]) = Len(bs_in[2])
    /\ bs_hist = <<"xor", "xor">> => bs_res = Ok(bs_in[1])

C6_Witness ==
    /\ bs_hist = <<"xor", "xor">>
    /\ Len(bs_in[1]) >= 2
    /\ \E i \in DOMAIN bs_other : bs_other[i] # 0

\* C7: A.union(B).issuperset(A) and A.intersection(B).issubset(A), the union
\* holding the maximum weight per key and the intersection the minimum, an
\* absent key counting as weight 0.
C7_UnionSupersetIntersectionSubset ==
    /\ fz_op = "union" =>
          /\ FuzzySet_issuperset(fz_res.val, fz)
          /\ \A k \in FzKeys :
                FuzzySet_getitem(fz_res.val, k) =
                    RMax(FuzzySet_getitem(fz, k), FuzzySet_getitem(fz_arg, k))
    /\ fz_op = "intersection" =>
          /\ FuzzySet_issubset(fz_res.val, fz)
          /\ \A k \in FzKeys :
                FuzzySet_getitem(fz_res.val, k) =
                    RMin(FuzzySet_getitem(fz, k), FuzzySet_getitem(fz_arg, k))

C7_Witness ==
    /\ fz_op = "union"
    /\ \E k \in FzKeys :
          /\ RLt(Zero, FuzzySet_getitem(fz, k))
          /\ RLt(FuzzySet_getitem(fz, k), FuzzySet_getitem(fz_arg, k))
    /\ \E k \in FzKeys :
          /\ RLt(Zero, FuzzySet_getitem(fz_arg, k))
          /\ RLt(FuzzySet_getitem(fz_arg, k), FuzzySet_getitem(fz, k))

\* C8 (as claimed): brute_force maps each key k of the key space to
\* score(ciphertext XOR keystream(k)) * prior(k) and drops exactly the keys
\* whose weight is 0 or less than min_score; a key whose weight equals a
\* non-zero min_score is kept.
C8_BruteForceKeepsMinScore ==
    (bf_pc = "done" /\ bf_res.ok) =>
        LET keys == KeysOfSpace(bf_in.key_space)
            w(k) == Likehood(bf_in.ciphertext, bf_in.score_func, bf_in.key_space, k)
        IN /\ DictKeys(bf_res.val.items) \subseteq {keys[i] : i \in DOMAIN keys}
           /\ \A i \in DOMAIN keys :
                 FuzzySet_getitem(bf_res.val, keys[i]) =
                    IF w(keys[i]) = Zero \/ RLt(w(keys[i]), bf_in.min_score.v)
                    THEN Zero ELSE w(keys[i])

\* C9 (as claimed): freq_attack returns exactly the keys c XOR p, for c among
\* the T most frequent ciphertext 1-grams and p among the expected plaintext
\* 1-grams, each mapped to the maximum prior weight over all the pairs (c, p)
\* that produce it, whatever the order of the pairs.
C9_FreqAttackMaxPrior ==
    (fa_pc = "done" /\ fa_res.ok) =>
        LET plain == fa_in.most_common_plain_ngrams
            top == SequenceStatsMixin_most_common(
                       NgramsView_iter(fa_in.ciphertext, 1), fa_in.cipher_ngram_top).val
            cs == {top[i] : i \in DOMAIN top}
            ps == {p \in {PlainNgrams(plain)[i] : i \in DOMAIN PlainNgrams(plain)} :
                      Len(p) = 1}
            priors(k) == {PlainPrior(plain, p) :
                             p \in {q \in ps : \E c \in cs : XorZip(c, q) = k}}
            best(k) == CHOOSE x \in priors(k) : \A y \in priors(k) : RLe(y, x)
        IN /\ DictKeys(fa_res.val.items) = {XorZip(c, p) : c \in cs, p \in ps}
           /\ \A k \in DictKeys(fa_res.val.items) :
                 FuzzySet_getitem(fa_res.val, k) = best(k)

\* C10 (as claimed): for a cutoff 0 <= C < 1 the join of the sets S1..Sk
\* contains exactly the combinations of the full cartesian product whose
\* weight, the product of the k fragment weights, is >= C, each joined
\* candidate mapped to that product.
C10_JoinKeepsProductsAboveCutOff ==
    (/\ jn_pc = "done"
     /\ jn_in.iterable # <<>>
     /\ RLe(Zero, jn_in.cut_off.v) /\ RLt(jn_in.cut_off.v, One)) =>
        LET all == AllPossibilities(jn_in.iterable)
            joined(elems) == JoinBytes(jn_in.j, [n \in DOMAIN elems |-> elems[n][1]])
            kept == {i \in DOMAIN all : RLe(jn_in.cut_off.v, SeqProb(all[i]))}
        IN /\ jn_res.ok
           /\ DictKeys(jn_res.val.items) = {joined(all[i]) : i \in kept}
           /\ \A i \in kept :
                 FuzzySet_getitem(jn_res.val, joined(all[i])) = SeqProb(all[i])

\* the cardinality mode of join_fuzzy_sets has run on sets none of them empty
JnCardinalityDone ==
    /\ jn_pc = "done"
    /\ jn_in.iterable # <<>>
    /\ RLe(One, jn_in.cut_off.v)
    /\ \A i \in DOMAIN jn_in.iterable : jn_in.iterable[i].items # <<>>

\* C11 (as claimed): in cardinality mode (C >= 1) the shrink step leaves at
\* least 1 member in every input set and discards lowest-weight members until
\* the product of the remaining set sizes is <= C, so the full product
\* computed afterwards never enumerates more than C combinations.
C11_ShrinkDownToCutOff ==
    JnCardinalityDone =>
        LET counters == ShrinkCounters(jn_in.iterable, jn_in.cut_off)
        IN /\ \A i \in DOMAIN counters : counters[i] >= 1
           /\ RLe(<<ProductOf(counters), 1>>, jn_in.cut_off.v)

\* C11 (amended): in cardinality mode the shrink step leaves at least 1 member
\* in every input set and discards lowest-weight members only while the
\* product of the remaining set sizes stays above C, the discard that would
\* bring it down to C or less being undone: once something is discarded the
\* full product computed afterwards enumerates more than C combinations, and
\* never more than 2C.
C11_ShrinkStopsAboveCutOff ==
    JnCardinalityDone =>
        LET counters == ShrinkCounters(jn_in.iterable, jn_in.cut_off)
            before == Counters(jn_in.iterable)
            twice == RMul(<<2, 1>>, jn_in.cut_off.v)
        IN /\ \A i \in DOMAIN counters : counters[i] >= 1 /\ counters[i] <= before[i]
           /\ counters # before => RLt(jn_in.cut_off.v, <<ProductOf(counters), 1>>)
           /\ RLe(<<ProductOf(counters), 1>>, twice)
           /\ RLt(jn_in.cut_off.v, <<ProductOf(before), 1>>) =>
                 RLt(jn_in.cut_off.v, <<ProductOf(counters), 1>>)

\* a join in cardinality mode in which the shrink step discarded a member
C11_Witness ==
    /\ JnCardinalityDone
    /\ ShrinkCounters(jn_in.iterable, jn_in.cut_off) # Counters(jn_in.iterable)
    /\ jn_res.ok

\* C12 (as claimed): in cardinality mode, for every cutoff C >= 1 (given as an
\* integer or as a float), the join returns the C most probable strings of the
\* shrunk product: min(C, number of distinct joined candidates) candidates,
\* never more than C and never an empty set when every input set is non-empty.
C12_JoinReturnsTopC ==
    JnCardinalityDone =>
        LET upper_set == UpperSet(jn_in.iterable, jn_in.cut_off, jn_in.j).val.items
            C == jn_in.cut_off.v[1] \div jn_in.cut_off.v[2]
            got == IF jn_res.ok THEN jn_res.val.items ELSE <<>>
        IN /\ jn_res.ok
           /\ Len(got) = Min(C, Len(upper_set))
           /\ got # <<>>
           /\ \A n \in DOMAIN got : \E k \in DOMAIN upper_set : got[n] = upper_set[k]
           /\ \A k \in DOMAIN upper_set :
                 (\A n \in DOMAIN got : got[n] # upper_set[k]) =>
                     \A n \in DOMAIN got : RLe(upper_set[k][2], got[n][2])

\* the combinations of one fragment per input set that the join of the state
\* left out although they weigh strictly more than a candidate it returned
JnLeftOutHeavier ==
    LET all == AllPossibilities(jn_in.iterable)
        joined(elems) == JoinBytes(jn_in.j, [n \in DOMAIN elems |-> elems[n][1]])
        got == jn_res.val.items
    IN {i \in DOMAIN all :
           /\ joined(all[i]) \notin DictKeys(got)
           /\ \E n \in DOMAIN got : RLt(got[n][2], SeqProb(all[i]))}

\* no two combinations of the input sets join to the same string
JnDistinctJoins ==
    LET all == AllPossibilities(jn_in.iterable)
        joined(elems) == JoinBytes(jn_in.j, [n \in DOMAIN elems |-> elems[n][1]])
    IN \A i, k \in DOMAIN all : joined(all[i]) = joined(all[k]) => i = k

\* C13: the cardinality-mode join is only an approximation of the global
\* top-C, the result can leave out a combination that weighs strictly more
\* than one it returns (C13_Witness is such a join); whenever it does, with
\* combinations that join to distinct strings, the combination has a fragment
\* that the shrink step discarded, the result being the best of the product of
\* the shrunk sets.
C13_LeftOutOnlyByShrink ==
    (JnCardinalityDone /\ jn_res.ok /\ JnDistinctJoins) =>
        LET all == AllPossibilities(jn_in.iterable)
            sets == ShrunkSets(jn_in.iterable, jn_in.cut_off)
        IN \A i \in JnLeftOutHeavier :
              \E n \in DOMAIN all[i] : all[i][n][1] \notin DictKeys(sets[n].items)

\* a join in cardinality mode that returns C candidates and leaves out a
\* combination weighing strictly more than one of them
C13_Witness ==
    /\ JnCardinalityDone
    /\ jn_res.ok
    /\ jn_in.cut_off.isint
    /\ JnDistinctJoins
    /\ Len(jn_res.val.items) = jn_in.cut_off.v[1]
    /\ JnLeftOutHeavier # {}

\* the candidates of fz by weight, heaviest first, those of equal weight by key
RECURSIVE ByWeightThenKey(_)
ByWeightThenKey(ks) ==
    IF ks = {} THEN <<>>
    ELSE LET k == CHOOSE x \in ks : \A y \in ks \ {x} :
                      \/ RLt(FuzzySet_getitem(fz, y), FuzzySet_getitem(fz, x))
                      \/ FuzzySet_getitem(fz, y) = FuzzySet_getitem(fz, x) /\ x < y
         IN <<k>> \o ByWeightThenKey(ks \ {k})

\* C14 (as claimed): most_likely(n) returns the n highest-weight candidates,
\* and most_likely() the single highest one; among candidates of equal weight
\* the choice and order follow the natural ordering of the keys, so the result
\* does not depend on the order in which the candidates were inserted.
C14_MostLikelyTiesByKey ==
    (fz_op = "most_likely" /\ fz_res.ok) =>
        LET sorted == ByWeightThenKey(DictKeys(fz.items))
        IN IF fz_arg = <<>> THEN fz_res.val = sorted[1]
           ELSE fz_res.val = Slice(sorted, 0, fz_arg[1])

\* C14 (amended): most_likely(n) returns the n highest-weight candidates (all
\* of them when there are fewer), heaviest first, and most_likely() the single
\* highest one; among candidates of equal weight the choice and order follow
\* the order in which the candidates were inserted, the earliest first.
\* Without a candidate to return (an empty set, or n = 0) it raises IndexError.
C14_MostLikelyTiesByInsertion ==
    fz_op = "most_likely" =>
        LET items == fz.items
            n == IF fz_arg = <<>> THEN 1 ELSE fz_arg[1]
            want == Min(n, Len(items))
            got == IF fz_arg = <<>> THEN <<fz_res.val>> ELSE fz_res.val
            pos(k) == DictIndex(items, k)
            before(a, b) == \/ RLt(items[b][2], items[a][2])
                            \/ items[b][2] = items[a][2] /\ a < b
        IN IF want = 0 THEN fz_res = Raise("IndexError")
           ELSE /\ fz_res.ok
                /\ Len(got) = want
                /\ \A i \in DOMAIN got : got[i] \in DictKeys(items)
                /\ \A i, j \in DOMAIN got : i < j => before(pos(got[i]), pos(got[j]))
                /\ \A i \in DOMAIN got : \A b \in DOMAIN items :
                      items[b][1] \notin {got[j] : j \in DOMAIN got} =>
                          before(pos(got[i]), b)

\* most_likely on a set holding two candidates of the highest weight, the one
\* inserted first having the larger key
C14_Witness ==
    /\ fz_op = "most_likely"
    /\ fz_res.ok
    /\ \E a, b \in DOMAIN fz.items :
          /\ a < b
          /\ fz.items[a][2] = fz.items[b][2]
          /\ fz.items[a][1] > fz.items[b][1]
          /\ \A c \in DOMAIN fz.items : RLe(fz.items[c][2], fz.items[a][2])

\* the pairs of positions i < j of ks_s that hold the same 3 bytes
KsEqualTrigrams ==
    LET ngrams == NgramsView_iter(ks_s, 3)
    IN {p \in (DOMAIN ngrams) \X (DOMAIN ngrams) : p[1] < p[2] /\ ngrams[p[1]] = ngrams[p[2]]}

\* ks_s is built so that one n-gram, n >= 3, is repeated at distance d and
\* nothing else repeats: the equal 3-grams are those of one run of positions
\* and of the run d further
KsEngineered(d) ==
    LET firsts == {p[1] : p \in KsEqualTrigrams}
    IN /\ KsEqualTrigrams # {}
       /\ \A p \in KsEqualTrigrams : p[2] - p[1] = d
       /\ \A i, k \in firsts : \A x \in i..k : x \in firsts

\* C15: for every byte string built so that one n-gram (n >= 3) is repeated at
\* distance d and nothing else repeats, kasiski_test reports d as the most
\* frequent delta of the histogram it outputs for some n.
C15_KasiskiReportsDistance ==
    \A d \in 1..KsMaxLen :
        (ks_pc = "done" /\ KsEngineered(d)) =>
            /\ ks_res.ok
            /\ \E n \in DOMAIN ks_res.val :
                  LET delta_stats == ks_res.val[n]
                  IN \E k \in DOMAIN delta_stats :
                        /\ delta_stats[k][1] = d
                        /\ \A x \in DOMAIN delta_stats :
                              RLe(delta_stats[x][2], delta_stats[k][2])

\* kasiski_test has run on a string in which an n-gram of more than 3 bytes is
\* repeated, and has output a histogram for the 3-grams and one for the 4-grams
C15_Witness ==
    /\ ks_pc = "done"
    /\ \E d \in 1..KsMaxLen : KsEngineered(d)
    /\ Cardinality(KsEqualTrigrams) >= 2
    /\ Len(ks_res.val) >= 2

ShiftedLeft(s, o) ==
    LET all == Slice(s, Len(o), Len(s)) \o o
    IN SubSeq(all, Len(all) - Len(s) + 1, Len(all))

\* C17: for all byte sequences s and o, including an empty s and an o longer
\* than s, s << o (and the in-place s <<= o on a mutable s) yields a sequence
\* of length len(s): the bytes of s after its first len(o), followed by o, cut
\* to len(s).
C17_ShiftLeftKeepsLength ==
    /\ bs_hist = <<"lshift">> =>
          /\ bs_res.ok
          /\ Len(bs_res.val) = Len(bs_in[1])
          /\ bs_res.val = ShiftedLeft(bs_in[1], bs_in[2])
    /\ bs_hist = <<"ilshift">> =>
          /\ bs_res.ok
          /\ Len(bs_self) = Len(bs_in[1])
          /\ bs_self = ShiftedLeft(bs_in[1], bs_in[2])

\* C18: decrypt_ecb_tail stops as soon as a full round of 256 guesses finds no
\* collision or limit bytes have been recovered: for every limit L >= 0 it
\* returns at most L bytes after at most 256 * L oracle calls plus one failing
\* round.
C18_EcbTailStopsAtLimit ==
    (ecb_pc = "done" /\ ecb_in.limit # NoLimit) =>
        /\ ecb_ret.ok
        /\ Len(ecb_ret.val) <= ecb_in.limit[1]
        /\ ecb_calls <= ByteRange * ecb_in.limit[1] + ByteRange

\* the blocks the attack starts from: those of (IV +) ciphertext as the
\* caller handed them over
CbcCallerBlocks ==
    NblocksView_iter(IF cbc_in.iv # None THEN cbc_in.iv.val \o cbc_in.ciphertext
                     ELSE cbc_in.ciphertext,
                     cbc_in.bsize)

\* C19: the CBC attack keeps its mutable state to itself: at every step of
\* decrypt_cbc_padding_attack, its oracle calls and its return included, the
\* caller's ciphertext and IV objects hold the bytes they held before the
\* call; forging is done on private copies, and the forged second-to-last
\* block is put back to its original value before the next block pair is
\* attacked.
C19_CbcAttackKeepsStateToItself ==
    cbc_pc # "idle" =>
        /\ cbc_heap[CallerCiphertext] = cbc_in.ciphertext
        /\ cbc_in.iv # None => cbc_heap[CallerIv] = cbc_in.iv.val
        /\ \A k \in DOMAIN cbc_cblocks :
              /\ cbc_cblocks[k] # CallerCiphertext
              /\ cbc_in.iv # None => cbc_cblocks[k] # CallerIv
        /\ cbc_pc \in {"for n", "restore"} =>
              /\ cbc_cblocks[Len(cbc_cblocks) - 1] # cbc_prev
              /\ cbc_heap[cbc_prev] = CbcCallerBlocks[Len(cbc_cblocks) - 1]
        /\ cbc_pc \in {"while", "done"} =>
              Deref(cbc_heap, cbc_cblocks) = SubSeq(CbcCallerBlocks, 1, Len(cbc_cblocks))

\* an attack with the IV given has returned after two block pairs, and a
\* block it forged differs from every block of the caller
C19_Witness ==
    /\ cbc_pc = "done"
    /\ cbc_ret.ok
    /\ cbc_in.iv # None
    /\ Len(cbc_p) >= 2
    /\ \E k \in DOMAIN cbc_heap :
          /\ Len(cbc_heap[k]) = cbc_in.bsize
          /\ \A j \in DOMAIN CbcCallerBlocks : cbc_heap[k] # CbcCallerBlocks[j]

\* a weight outside [0,1] among the pairs given to the last operation
FzGivenOutOfRange ==
    \E i \in DOMAIN fz_arg.items : ~check_probability(fz_arg.items[i][2])

\* C20: any attempt to give a candidate a weight outside [0,1] (negative or
\* greater than 1), at construction in any accepted form or by item
\* assignment, raises an error immediately; the candidate is never stored and
\* never silently dropped.
C20_OutOfRangeWeightRaises ==
    /\ (fz_op \in {"init", "init failed"} /\ FzGivenOutOfRange) =>
          /\ fz_op = "init failed"
          /\ ~fz_res.ok
    /\ (fz_op = "setitem" /\ FzGivenOutOfRange) =>
          /\ ~fz_res.ok
          /\ \A i \in DOMAIN fz.items : check_probability(fz.items[i][2])

\* C21: brute_force and freq_attack never raise because no candidate was
\* found: for every ciphertext (including an empty one), every list of
\* expected n-grams (including an empty one) and every number T >= 1 of
\* ciphertext n-grams to take, freq_attack returns a weighted candidate set,
\* which is empty when nothing qualifies.
C21_FreqAttackNeverRaises ==
    (fa_pc = "done" /\ fa_in.cipher_ngram_top >= 1) =>
        /\ fa_res.ok
        /\ (PlainNgrams(fa_in.most_common_plain_ngrams) = <<>> \/ fa_in.ciphertext = <<>>)
              => fa_res.val.items = <<>>

\* C22: for every non-empty weighted candidate set, whatever its
\* min_membership, normalize() completes without error and leaves the same
\* candidates with each weight divided by the previous sum of weights, so the
\* weights sum to 1.
C22_NormalizeSumsToOne ==
    (fz_op = "normalize" /\ fz_arg.items # <<>>) =>
        /\ fz_res.ok
        /\ DictKeys(fz.items) = DictKeys(fz_arg.items)
        /\ \A k \in DictKeys(fz_arg.items) :
              FuzzySet_getitem(fz, k) =
                  RMul(FuzzySet_getitem(fz_arg, k), RInv(SumWeights(fz_arg.items)))
        /\ SumWeights(fz.items) = One

\* the ranks a value holds in the sorted observations
TrueRanks(seen, value) == {k \in 1..Len(seen) : seen[k] = value}

\* C23: for every epsilon, every sequence of added observations (sorted,
\* shuffled or with repeated values; buffered or unbuffered) and every rank r
\* in 1..n, rank(r) returns an observed value whose true rank k in the sorted
\* observations satisfies |r - k| <= max_error() = floor(epsilon * n).
C23_RankWithinMaxError ==
    (ds_pc = "answered" /\ ds_call = "rank" /\ ds_arg[1] \in 1..Len(ds_seen)) =>
        /\ ds_res.ok
        /\ \E k \in TrueRanks(ds_seen, ds_res.val[1]) :
              Abs(ds_arg[1] - k) <= DistributionSummary_max_error(ds_self)

\* C24: buffering does not alter the result of a query: quantile(q) for
\* 0 < q <= 1 never fails and is the answer for rank
\* ceil(q * observations_count()), the observations still on hold in the
\* buffer when the query is made included.
C24_QuantileCountsBufferedObservations ==
    (ds_pc = "answered" /\ ds_call = "quantile" /\ ds_seen # <<>>) =>
        /\ ds_res.ok
        /\ ds_res = DistributionSummary_rank(ds_self, CeilOfProduct(ds_arg, Len(ds_seen))).ret

\* the observations merged into the summary: those seen less those on hold
RECURSIVE WithoutEach(_, _)
WithoutEach(seen, buffer) ==
    IF buffer = <<>> THEN seen
    ELSE LET at == CHOOSE k \in 1..Len(seen) : seen[k] = Head(buffer)
         IN WithoutEach(SubSeq(seen, 1, at - 1) \o SubSeq(seen, at + 1, Len(seen)),
                        Tail(buffer))

\* C25: after every addition of observations, in any order and batch size,
\* the summary is sorted by value, the g values sum to the number of
\* observations merged so far, every tuple satisfies
\* g + d - 1 <= 2 * floor(epsilon * n), the first and last tuples carry the
\* true minimum and maximum of the observations merged, no observation is lost
\* between buffer and summary, and no assert of the code fails.
C25_SummaryInvariants ==
    (ds_pc \in {"ready", "failed"}) =>
        LET summary == ds_self.summary
            merged == WithoutEach(ds_seen, ds_self.buffer)
        IN /\ ds_pc = "ready"
           /\ \A k \in 1..(Len(summary) - 1) : summary[k].v <= summary[k + 1].v
           /\ SumG(summary) = ds_self.n
           /\ ds_self.n = Len(merged)
           /\ \A k \in 1..Len(summary) :
                 /\ summary[k].g >= 1
                 /\ summary[k].d >= 0
                 /\ summary[k].g + summary[k].d - 1 <= 2 * DistributionSummary_max_error(ds_self)
           /\ (summary = <<>>) = (merged = <<>>)
           /\ merged # <<>> =>
                 /\ summary[1].v = merged[1]
                 /\ summary[Len(summary)].v = merged[Len(merged)]
           /\ ds_self.n + Len(ds_self.buffer) = Len(ds_seen)
           /\ \A k \in 1..Len(ds_self.buffer) :
                 TrueRanks(ds_seen, ds_self.buffer[k]) # {}

\* C25 happens: a buffered summary of all the observations of a stream, some
\* still on hold, in which the compression merged tuples
C25_Witness ==
    /\ ds_pc = "ready"
    /\ ds_self.buffered
    /\ ds_self.buffer # <<>>
    /\ Len(ds_seen) = DsMaxObs
    /\ Len(ds_self.summary) >= 3
    /\ \E k \in 1..Len(ds_self.summary) : ds_self.summary[k].g >= 2

\* the integers of [lo, hi] congruent to start modulo step
SpMembers(self) == {x \in self.lo..self.hi : (x - self.start) % self.step = 0}

\* C26: for all integers lo <= start <= hi and step >= 1, iterating
\* IntSpace(lo, hi, step=step, start=start) terminates and yields, exactly
\* once each, the integers x of [lo, hi] with x congruent to start modulo
\* step, beginning with start and in order of non-decreasing distance from
\* start; the asserts of the generator never fail.
C26_IntSpaceYieldsEachOnce ==
    /\ sp_pc # "failed"
    /\ (sp_pc = "raised") =
          (sp_pc \notin {"new", "idle"}
           /\ ~(sp_in.a <= sp_in.start /\ sp_in.start <= sp_in.b /\ sp_in.step >= 1))
    /\ sp_pc \in {"zip", "rest", "done"} =>
          LET self == sp_self.val
          IN /\ self = [lo |-> sp_in.a, hi |-> sp_in.b, step |-> sp_in.step, start |-> sp_in.start]
             /\ \A i \in 1..Len(sp_out) : sp_out[i] \in SpMembers(self)
             /\ \A i, j \in 1..Len(sp_out) : i # j => sp_out[i] # sp_out[j]
             /\ \A i \in 1..(Len(sp_out) - 1) :
                   Abs(sp_out[i] - self.start) <= Abs(sp_out[i + 1] - self.start)
             /\ sp_out # <<>> => sp_out[1] = self.start
             /\ sp_pc = "done" => {sp_out[i] : i \in 1..Len(sp_out)} = SpMembers(self)

\* C26 happens: an iteration that alternated around a start inside the range
\* and then went on below it, with a step above 1, has ended
C26_Witness ==
    /\ sp_pc = "done"
    /\ sp_self.val.step > 1
    /\ sp_cnt >= 1
    /\ Len(sp_out) > 2 * sp_cnt
    /\ sp_out[Len(sp_out)] < sp_self.val.start
    /\ sp_self.val.lo < 0

\* C27: each tempering step is inverted exactly: for every 32-bit word y,
\* every 32-bit mask m and every shift distance b with 0 < b < 32,
\* inv_right_shift(y XOR ((y >> b) AND m), b, m) = y and
\* inv_left_shift(y XOR ((y << b) AND m AND 0xFFFFFFFF), b, m) = y.
C27_TemperingStepInverted ==
    /\ tm_pc \in {"while", "done"} =>
          /\ tm_v \subseteq 0..(MT_w - 1)
          /\ tm_v = IF tm_in.left THEN TemperLeft(tm_in.y, tm_in.b, tm_in.m)
                    ELSE TemperRight(tm_in.y, tm_in.b, tm_in.m)
    /\ tm_pc = "done" => tm_g = tm_in.y

\* C27 happens: a left tempering that changed the word and needed more than
\* one round of the loop to undo has been inverted
C27_Witness ==
    /\ tm_pc = "done"
    /\ tm_in.left
    /\ tm_in.b = 1
    /\ tm_in.m = MT_b
    /\ tm_v # tm_in.y
    /\ inv_left_shift_round(tm_v, tm_in.b, tm_in.m, tm_v) # tm_in.y
    /\ tm_g = tm_in.y

\* the positions of s where an n-gram starts that starts elsewhere too
RepeatedStarts(s, n) ==
    LET ngrams == NgramsView_iter(s, n)
    IN SelectSeq([k \in DOMAIN ngrams |-> k - 1],
                 LAMBDA p : \E q \in DOMAIN ngrams : q # p + 1 /\ ngrams[q] = ngrams[p + 1])

\* C28: for every byte string s and n >= 1, stats.kasiski.merge_overlaping
\* applied to the repeated-n-gram positions of s gives exactly the positions
\* where a repeated (n+1)-gram of s starts, grouped the same way (ids up to
\* renaming) as as_ngram_repeated_positions(s, n+1): no false positive is
\* left and no real repeat is lost. Here kp_n is already n + 1.
C28_MergeGivesLongerRepeats ==
    kp_pc \in {"merged", "raised merging"} =>
        /\ kp_res.ok
        /\ [k \in DOMAIN kp_res.val |-> kp_res.val[k][1]] = RepeatedStarts(kp_s, kp_n)
        /\ \A i, j \in DOMAIN kp_res.val :
              (kp_res.val[i][2] = kp_res.val[j][2]) =
                  (SubSeq(kp_s, kp_res.val[i][1] + 1, kp_res.val[i][1] + kp_n)
                   = SubSeq(kp_s, kp_res.val[j][1] + 1, kp_res.val[j][1] + kp_n))

\* the n-grams found at 2 or more positions of s, each with all of its
\* positions in increasing order
RepeatedNgrams(s, n) ==
    LET starts == 0..(Len(s) - n)
        at(p) == SubSeq(s, p + 1, p + n)
    IN {<<at(p), SelectSeq([k \in 1..(Len(s) - n + 1) |-> k - 1], LAMBDA q : at(q) = at(p))>> :
            p \in {p \in starts : \E q \in starts : q # p /\ at(q) = at(p)}}

\* C29: merge_overlaping of metrics/kasiski.py returns every (n+1)-gram that
\* occurs at least twice, each with all of its positions in increasing order,
\* and nothing that occurs fewer than twice: in kasiski_test the list l holds,
\* after k merges, the repeated (3+k)-grams of s, so a delta histogram is
\* output for every n at which s has a repeated n-gram.
C29_MergeKeepsEveryRepeat ==
    ks_pc = "while" =>
        {ks_l[k] : k \in DOMAIN ks_l} = RepeatedNgrams(ks_s, 3 + Len(ks_res.val))

=============================================================================
